---- MODULE Spec2Model ----
(***************************************************************************)
(* Model of the PubSub facade of src/src/PubSub.ts (compiled copy in       *)
(* src/dist/PubSub.js): a registry of topic handles over a Google Cloud    *)
(* Pub/Sub client, with log/success/error events emitted on a Node         *)
(* EventEmitter.                                                           *)
(*                                                                         *)
(* Every facade method is an async function.  A call is modelled as a      *)
(* record in a slot of `calls`; its synchronous segments (the code between *)
(* two awaits) are the actions, and the upstream service answers each      *)
(* request in an action of its own, so that calls in flight interleave     *)
(* exactly at the awaits.                                                  *)
(***************************************************************************)
EXTENDS Integers, Sequences, FiniteSets, TLC

\* ------------------------------------------------------------------ bounds
MaxObjs == 1        \* Subscription objects holding listeners
MaxMsgs == 1        \* messages delivered by the subscription objects
MaxPublished == 1   \* messages accepted upstream, over all topics
\* Subscription objects holding listeners where several calls subscribe
MaxSubscribers == 2
\* the longest chain of publish calls
MaxChain == 2
MaxErrs == 1        \* errors raised by one Subscription object

\* ------------------------------------------------------------ input values
Topics == {"t1", "t2"}
SubNames == {"s1"}
Callbacks == {"cb1", "cb2"}
Contents == {"one"}
Metas == {"{}"}
\* the contents and metas given to publish and send where the bytes of the
\* envelope matter
SendContents == {"one", "seven"}
SendMetas == {"{}", "both", "foo"}
\* the payloads of the messages a subscription delivers, as the bytes of
\* msg.data: {"a":1}, {bad and 7
Payloads == {<<123, 34, 97, 34, 58, 49, 125>>, <<123, 98, 97, 100>>, <<55>>}
\* the errors a Subscription object raises
\* the payload given to sendWithoutCover where its bytes do not matter
RawPayloads == {<<55>>}
StreamErrors == {"StreamError"}
\* the listeners the caller registered on the emitter given to the constructor
SinkChoices == {{}, {"log", "success", "error"}}

\* the config objects given to the constructor: a key file, inline credentials
\* (with one private key or another) and a configured ack deadline, and an
\* object without projectId
KeyFileConfig == [projectId |-> "p1", file |-> "key.json"]
CredentialsConfig(key) ==
    [projectId |-> "p1",
     credentials |-> [client_email |-> "a@p1", private_key |-> key],
     ack_deadline_seconds |-> 20]
PrivateKeys == {"key1", "key2"}
UsualConfigs == {KeyFileConfig}
ConfigChoices == {KeyFileConfig, [file |-> "key.json"]}
                   \cup {CredentialsConfig(k) : k \in PrivateKeys}

\* the topics that exist upstream before the facade is constructed
UpstreamChoices == {{"t1"}}
\* the subscriptions that may exist upstream before the facade is constructed
UpstreamSubChoices == {{}, {<<"t1", "s1">>}}

Null == "null"
\* an option that is not given (undefined)
Undefined == -1
\* the options objects given to subscribe
Options(maxInProgress, ackDeadlineSeconds) ==
    [maxInProgress |-> maxInProgress, ackDeadlineSeconds |-> ackDeadlineSeconds]
\* options = {}
NoOptions == Options(Undefined, Undefined)
UsualOptions == {NoOptions}
OptionChoices == {Options(m, a) : m \in {Undefined, 3}, a \in {Undefined, 0, 20}}
\* at most two calls are in flight at the same time
Slots == {1, 2}

\* ------------------------------------------------------------------- state
VARIABLES
    client,       \* this.client: FALSE is null, TRUE the connected client
    topics,       \* this.topics: the names that have a handle in the registry
    sink,         \* event types the emitter has a listener for
    config,       \* this.config
    constructed,  \* the constructor returned an instance (it did not throw)
    upTopics,     \* topics that exist in the upstream service
    upSubs,       \* subscriptions that exist upstream: <<topic, sub>>
    upLog,        \* per topic, the payloads the service accepted, in order
    calls,        \* slot -> the call in that slot (idle, in flight, settled)
    objs,         \* the Subscription objects created by subscribe calls
    msgs          \* the messages the subscription objects delivered

vars == <<client, topics, sink, config, constructed, upTopics, upSubs, upLog,
          calls, objs, msgs>>

\* ---------------------------------------------------------------- helpers
NoCall == [op |-> "idle", topic |-> Null, sub |-> Null, cb |-> Null,
           content |-> Null, meta |-> Null, handle |-> TRUE, pc |-> "idle",
           result |-> "none", value |-> Null, resp |-> "none",
           events |-> <<>>, reqs |-> <<>>, obj |-> 0, data |-> <<>>,
           options |-> NoOptions,
           opts |-> [flowControl |-> [maxMessages |-> 0], ackDeadline |-> 0],
           follows |-> FALSE, overlap |-> FALSE]

Busy(c) == c.pc \notin {"idle", "done"}
AnyBusy == \E s \in Slots : Busy(calls[s])
\* a new call is placed in the first slot that holds no call in flight
FreeSlot(s) == /\ constructed
               /\ ~Busy(calls[s])
               /\ \A r \in Slots : r < s => Busy(calls[r])

\* an event emitted without a data argument
NoData == <<>>

\* the {service, message, data} object handed to emitter.emit
Event(type, message, data) == [type |-> type, message |-> message, data |-> data]

\* EventEmitter.emit(type, payload): an 'error' event without a listener
\* throws; every other event without a listener is dropped silently.
EmitThrows(type) == type = "error" /\ "error" \notin sink

\* log(message, data)
LogEvent(message, data) == Event("log", message, data)
\* success(message, data)
SuccessEvent(message, data) == Event("success", message, data)
\* error(err, data)
ErrorEvent(err, data) == Event("error", <<err>>, data)

\* The call that settled last stays in its slot until the next segment of any
\* call runs.  A new call follows it in sequence when nothing is in flight and
\* that call was the same operation on the same topic, resolved, and was
\* itself never overlapped by another call.
InSequence(op, topic) ==
    /\ ~AnyBusy
    /\ \E r \in Slots : /\ calls[r].pc = "done"
                        /\ calls[r].op = op
                        /\ calls[r].topic = topic
                        /\ calls[r].result = "resolved"
                        /\ ~calls[r].overlap

\* a call as it is at its first synchronous segment
NewCall(op, topic, sub, cb, content, meta, handle) ==
    [NoCall EXCEPT !.op = op, !.topic = topic, !.sub = sub, !.cb = cb,
                   !.content = content, !.meta = meta, !.handle = handle,
                   !.pc = "start",
                   !.follows = InSequence(op, topic),
                   !.overlap = AnyBusy]

\* the returned promise settles
Resolve(c, v) == [c EXCEPT !.result = "resolved", !.value = v]
Reject(c, e) == [c EXCEPT !.result = "rejected", !.value = e]
Emit(c, e) == [c EXCEPT !.events = Append(@, e)]
Request(c, kind) == [c EXCEPT !.reqs = Append(@, kind), !.pc = kind \o "_req",
                              !.resp = "none"]
Finish(c) == [c EXCEPT !.pc = "done"]

\* put call c in slot s; calls already in flight now overlap with it
Start(s, c) ==
    calls' = [r \in Slots |->
                IF r = s THEN c
                ELSE IF Busy(calls[r]) THEN [calls[r] EXCEPT !.overlap = TRUE]
                ELSE NoCall]

\* the call of slot s becomes c
Step(s, c) ==
    calls' = [r \in Slots |->
                IF r = s THEN c
                ELSE IF Busy(calls[r]) THEN calls[r]
                ELSE NoCall]

\* the errors with which the upstream service answers a request
UpstreamErrors == {"TransportError", "NotFound", "AlreadyExists"}

Range(seq) == {seq[i] : i \in DOMAIN seq}

HasHandleAlways(reg, name) == TRUE

\* this.topics[name] is a topic handle (and not undefined)
HasHandle(reg, name) == name \in reg

ExistsNever(resp) == FALSE

\* const [exists] = await topic.exists(); exists === true
Exists(resp) == resp = "true"

Count(seq, x) == Cardinality({i \in DOMAIN seq : seq[i] = x})

\* ---------------------------------------------------------- construction
\* { ...a, ...b }: the keys of both objects, b's value where b has the key
Spread(a, b) ==
    [k \in DOMAIN a \cup DOMAIN b |-> IF k \in DOMAIN b THEN b[k] ELSE a[k]]

\* the default the constructor spreads the given configuration over
DefaultAckDeadline == 300

\* constructor(name, emitter, config): this.config = { ack_deadline_seconds:
\* 300, ...config }; the body validates nothing and never throws
Constructor(cfg) ==
    [threw |-> FALSE,
     config |-> Spread([ack_deadline_seconds |-> DefaultAckDeadline], cfg)]

\* the state `new PubSub(name, emitter, cfg)` leaves, for cfg in cfgs, the
\* service holding one of the sets of subscriptions subs
Construct(cfgs, subs) ==
    /\ client = FALSE
    /\ topics = {}
    /\ sink \in SinkChoices
    /\ \E cfg \in cfgs : /\ config = Constructor(cfg).config
                         /\ constructed = ~Constructor(cfg).threw
    /\ upTopics \in UpstreamChoices
    /\ upSubs \in subs
    /\ upLog = [t \in Topics |-> <<>>]
    /\ calls = [s \in Slots |-> NoCall]
    /\ objs = <<>>
    /\ msgs = <<>>

\* a facade constructed with the configuration of the usual caller
Init == Construct(UsualConfigs, {{}})

\* a facade constructed with any of the configurations, over a service that
\* may hold a subscription already
InitConfig == Construct(ConfigChoices, UpstreamSubChoices)

\* ------------------------------------------------------------------ init()
\* the value of cfg.key, "undefined" when cfg has no such key
Get(cfg, key) == IF key \in DOMAIN cfg THEN cfg[key] ELSE "undefined"

UsingConfigWithKey(cfg) ==
    <<Get(cfg, "projectId"),
      IF "credentials" \in DOMAIN cfg THEN cfg.credentials.private_key ELSE "n/a",
      IF "credentials" \in DOMAIN cfg THEN "PrivateKey" ELSE "KeyFile">>

\* the data of the 'Using config' log event: projectId, email, method
UsingConfig(cfg) ==
    <<Get(cfg, "projectId"),
      IF "credentials" \in DOMAIN cfg THEN cfg.credentials.client_email ELSE "n/a",
      IF "credentials" \in DOMAIN cfg THEN "PrivateKey" ELSE "KeyFile">>

\* `Successfully connected on project ${this.config.projectId}`
Connected(cfg) ==
    SuccessEvent(<<"Successfully connected on project", Get(cfg, "projectId")>>, NoData)

initEager(s) ==
    /\ FreeSlot(s)
    /\ client' = TRUE
    /\ LET c0 == NewCall("init", Null, Null, Null, Null, Null, TRUE)
           c1 == Emit(c0, LogEvent(<<"Using config">>, UsingConfig(config)))
       IN Start(s, Request(c1, "list"))
    /\ UNCHANGED <<topics, sink, config, constructed, upTopics, upSubs, upLog, objs, msgs>>

\* first segment: log the configuration, build the client, ask for the topics
init(s) ==
    /\ FreeSlot(s)
    /\ LET c0 == NewCall("init", Null, Null, Null, Null, Null, TRUE)
           c1 == Emit(c0, LogEvent(<<"Using config">>, UsingConfig(config)))
       IN Start(s, Request(c1, "list"))
    /\ UNCHANGED <<client, topics, sink, config, constructed, upTopics, upSubs, upLog, objs, msgs>>

\* client.getTopics() is answered by the service
UpstreamList(s) ==
    /\ calls[s].pc = "list_req"
    /\ \E ok \in BOOLEAN :
         Step(s, [calls[s] EXCEPT !.pc = "list_resp",
                                  !.resp = IF ok THEN "ok" ELSE "TransportError"])
    /\ UNCHANGED <<client, topics, sink, config, constructed, upTopics, upSubs, upLog, objs, msgs>>

InitThenRetry(s) ==
    /\ calls[s].pc = "list_resp"
    /\ IF calls[s].resp = "ok"
       THEN /\ client' = TRUE
            /\ Step(s, Finish(Resolve(Emit(calls[s], Connected(config)), "this")))
       ELSE /\ client' = client
            /\ IF Count(calls[s].reqs, "list") < 2
               THEN Step(s, Request(calls[s], "list"))
               ELSE Step(s, Finish(Reject(calls[s], calls[s].resp)))
    /\ UNCHANGED <<topics, sink, config, constructed, upTopics, upSubs, upLog, objs, msgs>>

InitThenReset(s) ==
    /\ calls[s].pc = "list_resp"
    /\ IF calls[s].resp = "ok"
       THEN /\ client' = TRUE
            /\ Step(s, Finish(Resolve(Emit(calls[s], Connected(config)), "this")))
       ELSE /\ client' = FALSE
            /\ Step(s, Finish(Reject(calls[s], calls[s].resp)))
    /\ UNCHANGED <<topics, sink, config, constructed, upTopics, upSubs, upLog, objs, msgs>>

\* .then(() => { this.client = client; this.success(...); return this; });
\* a rejection of getTopics() passes through to the promise of init
InitThen(s) ==
    /\ calls[s].pc = "list_resp"
    /\ IF calls[s].resp = "ok"
       THEN /\ client' = TRUE
            /\ Step(s, Finish(Resolve(Emit(calls[s], Connected(config)), "this")))
       ELSE /\ client' = client
            /\ Step(s, Finish(Reject(calls[s], calls[s].resp)))
    /\ UNCHANGED <<topics, sink, config, constructed, upTopics, upSubs, upLog, objs, msgs>>

\* ------------------------------------------------------- createTopic(name)
RegisterNothing(reg, name) == reg

\* this.topics[name] = topic: the registry after createTopic registered name
RegisterTopic(reg, name) == reg \cup {name}

createTopicCold(s, name) ==
    /\ FreeSlot(s)
    /\ LET c0 == NewCall("createTopic", name, Null, Null, Null, Null, TRUE)
       IN Start(s, Request(Emit(c0, LogEvent(<<"Creating topic", name>>, NoData)),
                           "exists"))
    /\ UNCHANGED <<client, topics, sink, config, constructed, upTopics, upSubs, upLog, objs, msgs>>

\* first segment: this.client.topic(name), the log event, topic.exists()
createTopic(s, name) ==
    /\ FreeSlot(s)
    /\ LET c0 == NewCall("createTopic", name, Null, Null, Null, Null, TRUE)
       IN IF ~client
          THEN \* this.client is null: this.client.topic throws a TypeError
               Start(s, Finish(Reject(c0, "TypeError")))
          ELSE Start(s, Request(Emit(c0, LogEvent(<<"Creating topic", name>>, NoData)),
                                "exists"))
    /\ UNCHANGED <<client, topics, sink, config, constructed, upTopics, upSubs, upLog, objs, msgs>>

\* topic.exists() is answered by the service
UpstreamTopicExists(s) ==
    /\ calls[s].op = "createTopic"
    /\ calls[s].pc = "exists_req"
    /\ \E ok \in BOOLEAN :
         Step(s, [calls[s] EXCEPT
                    !.pc = "exists_resp",
                    !.resp = IF ~ok THEN "TransportError"
                             ELSE IF calls[s].topic \in upTopics THEN "true"
                             ELSE "false"])
    /\ UNCHANGED <<client, topics, sink, config, constructed, upTopics, upSubs, upLog, objs, msgs>>

CreateTopicAfterExistsExclusive(s) ==
    /\ calls[s].op = "createTopic"
    /\ calls[s].pc = "exists_resp"
    /\ LET c == calls[s]
           name == c.topic
           creating == \E r \in Slots \ {s} :
                          /\ calls[r].op = "createTopic"
                          /\ calls[r].topic = name
                          /\ Busy(calls[r])
       IN CASE c.resp \in UpstreamErrors ->
                 /\ topics' = topics
                 /\ Step(s, Finish(Reject(c, c.resp)))
            [] c.resp \notin UpstreamErrors /\ (Exists(c.resp) \/ creating) ->
                 /\ topics' = RegisterTopic(topics, name)
                 /\ Step(s, Finish(Resolve(
                         Emit(c, SuccessEvent(<<"Topic", name, "already exists">>, NoData)),
                         "true")))
            [] OTHER ->
                 /\ topics' = topics
                 /\ Step(s, Request(c, "create"))
    /\ UNCHANGED <<client, sink, config, constructed, upTopics, upSubs, upLog, objs, msgs>>

CreateTopicAfterExistsRechecked(s) ==
    /\ calls[s].op = "createTopic"
    /\ calls[s].pc = "exists_resp"
    /\ LET c == calls[s]
           name == c.topic
       IN CASE c.resp \in UpstreamErrors ->
                 /\ topics' = topics
                 /\ Step(s, Finish(Reject(c, c.resp)))
            [] c.resp \notin UpstreamErrors /\ Exists(c.resp) /\ name \in upTopics ->
                 /\ topics' = RegisterTopic(topics, name)
                 /\ Step(s, Finish(Resolve(
                         Emit(c, SuccessEvent(<<"Topic", name, "already exists">>, NoData)),
                         "true")))
            [] OTHER ->
                 /\ topics' = topics
                 /\ Step(s, Request(c, "create"))
    /\ UNCHANGED <<client, sink, config, constructed, upTopics, upSubs, upLog, objs, msgs>>

\* the segment after `await topic.exists()`
CreateTopicAfterExists(s) ==
    /\ calls[s].op = "createTopic"
    /\ calls[s].pc = "exists_resp"
    /\ LET c == calls[s]
           name == c.topic
       IN CASE c.resp \in UpstreamErrors ->
                 /\ topics' = topics
                 /\ Step(s, Finish(Reject(c, c.resp)))
            [] c.resp \notin UpstreamErrors /\ Exists(c.resp) ->
                 /\ topics' = RegisterTopic(topics, name)
                 /\ Step(s, Finish(Resolve(
                         Emit(c, SuccessEvent(<<"Topic", name, "already exists">>, NoData)),
                         "true")))
            [] OTHER ->
                 /\ topics' = topics
                 /\ Step(s, Request(c, "create"))
    /\ UNCHANGED <<client, sink, config, constructed, upTopics, upSubs, upLog, objs, msgs>>

\* topic.create() is answered by the service
UpstreamTopicCreate(s) ==
    /\ calls[s].op = "createTopic"
    /\ calls[s].pc = "create_req"
    /\ LET name == calls[s].topic
       IN \E ok \in BOOLEAN :
            LET r == IF ~ok THEN "TransportError"
                     ELSE IF name \in upTopics THEN "AlreadyExists"
                     ELSE "ok"
            IN /\ upTopics' = IF r = "ok" THEN upTopics \cup {name} ELSE upTopics
               /\ Step(s, [calls[s] EXCEPT !.pc = "create_resp", !.resp = r])
    /\ UNCHANGED <<client, topics, sink, config, constructed, upSubs, upLog, objs, msgs>>

CreateTopicAfterCreateEager(s) ==
    /\ calls[s].op = "createTopic"
    /\ calls[s].pc = "create_resp"
    /\ LET c == calls[s]
           name == c.topic
       IN /\ topics' = RegisterTopic(topics, name)
          /\ IF c.resp = "ok"
             THEN Step(s, Finish(Resolve(
                      Emit(c, SuccessEvent(<<"Topic", name, "created">>, NoData)),
                      "true")))
             ELSE Step(s, Finish(Reject(c, c.resp)))
    /\ UNCHANGED <<client, sink, config, constructed, upTopics, upSubs, upLog, objs, msgs>>

\* the segment after `await topic.create()`
CreateTopicAfterCreate(s) ==
    /\ calls[s].op = "createTopic"
    /\ calls[s].pc = "create_resp"
    /\ LET c == calls[s]
           name == c.topic
       IN IF c.resp = "ok"
          THEN /\ topics' = RegisterTopic(topics, name)
               /\ Step(s, Finish(Resolve(
                       Emit(c, SuccessEvent(<<"Topic", name, "created">>, NoData)),
                       "true")))
          ELSE /\ topics' = topics
               /\ Step(s, Finish(Reject(c, c.resp)))
    /\ UNCHANGED <<client, sink, config, constructed, upTopics, upSubs, upLog, objs, msgs>>

\* ------------------------------------------------------- deleteTopic(name)
UnregisterNothing(reg, name) == reg

UnregisterAll(reg, name) == {}

\* the registry after `delete this.topics[name]`
UnregisterTopic(reg, name) == reg \ {name}

deleteTopicViaClient(s, name) ==
    /\ FreeSlot(s)
    /\ Start(s, Request(NewCall("deleteTopic", name, Null, Null, Null, Null, TRUE),
                        "delete"))
    /\ UNCHANGED <<client, topics, sink, config, constructed, upTopics, upSubs, upLog, objs, msgs>>

deleteTopic(s, name) ==
    /\ FreeSlot(s)
    /\ LET c0 == NewCall("deleteTopic", name, Null, Null, Null, Null, TRUE)
       IN IF ~HasHandle(topics, name)
          THEN \* this.topics[name] is undefined: topic.delete throws a TypeError
               Start(s, Finish(Reject(c0, "TypeError")))
          ELSE Start(s, Request(c0, "delete"))
    /\ UNCHANGED <<client, topics, sink, config, constructed, upTopics, upSubs, upLog, objs, msgs>>

\* topic.delete() is answered by the service; the subscriptions stay
UpstreamTopicDelete(s) ==
    /\ calls[s].op = "deleteTopic"
    /\ calls[s].pc = "delete_req"
    /\ LET name == calls[s].topic
       IN \E ok \in BOOLEAN :
            LET r == IF ~ok THEN "TransportError"
                     ELSE IF name \notin upTopics THEN "NotFound"
                     ELSE "ok"
            IN /\ upTopics' = IF r = "ok" THEN upTopics \ {name} ELSE upTopics
               /\ Step(s, [calls[s] EXCEPT !.pc = "delete_resp", !.resp = r])
    /\ UNCHANGED <<client, topics, sink, config, constructed, upSubs, upLog, objs, msgs>>

DeleteTopicCascade(s) ==
    /\ calls[s].op = "deleteTopic"
    /\ calls[s].pc = "delete_resp"
    /\ LET c == calls[s]
           name == c.topic
       IN IF c.resp = "ok"
          THEN /\ topics' = UnregisterTopic(topics, name)
               /\ upSubs' = {p \in upSubs : p[1] # name}
               /\ Step(s, Finish(Resolve(
                       Emit(c, LogEvent(<<"Deleted topic", name>>, NoData)),
                       "true")))
          ELSE /\ topics' = topics
               /\ upSubs' = upSubs
               /\ Step(s, Finish(Reject(c, c.resp)))
    /\ UNCHANGED <<client, sink, config, constructed, upTopics, upLog, objs, msgs>>

DeleteTopicAfterDeleteEager(s) ==
    /\ calls[s].op = "deleteTopic"
    /\ calls[s].pc = "delete_resp"
    /\ LET c == calls[s]
           name == c.topic
       IN /\ topics' = UnregisterTopic(topics, name)
          /\ IF c.resp = "ok"
             THEN Step(s, Finish(Resolve(
                      Emit(c, LogEvent(<<"Deleted topic", name>>, NoData)),
                      "true")))
             ELSE Step(s, Finish(Reject(c, c.resp)))
    /\ UNCHANGED <<client, sink, config, constructed, upTopics, upSubs, upLog, objs, msgs>>

\* the segment after `await topic.delete()`
DeleteTopicAfterDelete(s) ==
    /\ calls[s].op = "deleteTopic"
    /\ calls[s].pc = "delete_resp"
    /\ LET c == calls[s]
           name == c.topic
       IN IF c.resp = "ok"
          THEN /\ topics' = UnregisterTopic(topics, name)
               /\ Step(s, Finish(Resolve(
                       Emit(c, LogEvent(<<"Deleted topic", name>>, NoData)),
                       "true")))
          ELSE /\ topics' = topics
               /\ Step(s, Finish(Reject(c, c.resp)))
    /\ UNCHANGED <<client, sink, config, constructed, upTopics, upSubs, upLog, objs, msgs>>

\* ------------------------------------ subscribe(topicName, subName, cb)
\* the function subscribe hands to sub.on('message', ...): a closure around cb
Wrapper(cb) == [fn |-> "wrapper", cb |-> cb]
\* the function reference cb itself
Fn(cb) == [fn |-> "cb", cb |-> cb]

\* calls in flight that will still allocate a Subscription object
Subscribing == {r \in Slots : calls[r].op = "subscribe" /\ Busy(calls[r])}

AttachMessageListenerOnly(topic, sub, cb) ==
    [topic |-> topic, sub |-> sub, msgL |-> <<Wrapper(cb)>>, errL |-> 0,
     errs |-> <<>>]

\* sub.on('message', wrapper); sub.on('error', handler): the object as the
\* facade leaves it once both listeners are attached
AttachListeners(topic, sub, cb) ==
    [topic |-> topic, sub |-> sub, msgL |-> <<Wrapper(cb)>>, errL |-> 1,
     errs |-> <<>>]

\* a destructuring default: `x = d` gives d when x is undefined
Default(x, d) == IF x = Undefined THEN d ELSE x

SubscriptionOptionsLegacy(options, cfg) ==
    [flowControl |-> [maxMessages |-> Default(options.maxInProgress, 1)],
     ackDeadline |-> IF options.ackDeadlineSeconds \in {Undefined, 0}
                     THEN DefaultAckDeadline
                     ELSE options.ackDeadlineSeconds]

\* const { maxInProgress = 1, ackDeadlineSeconds = this.config
\* .ack_deadline_seconds } = options; opts = { flowControl: { maxMessages:
\* maxInProgress }, ackDeadline: ackDeadlineSeconds }
SubscriptionOptions(options, cfg) ==
    [flowControl |-> [maxMessages |-> Default(options.maxInProgress, 1)],
     ackDeadline |-> Default(options.ackDeadlineSeconds, cfg.ack_deadline_seconds)]

subscribeUpTo(limit, s, topicName, subName, cb, options) ==
    /\ FreeSlot(s)
    /\ LET c0 == [NewCall("subscribe", topicName, subName, cb, Null, Null, TRUE)
                   EXCEPT !.options = options,
                          !.opts = SubscriptionOptions(options, config)]
       IN IF ~HasHandle(topics, topicName)
          THEN \* this.topics[topicName] is undefined: topic.subscription throws
               Start(s, Finish(Reject(c0, "TypeError")))
          ELSE /\ Len(objs) + Cardinality(Subscribing) < limit
               /\ Start(s, Request(
                       Emit(c0, LogEvent(<<"Subscribing">>, <<topicName, subName>>)),
                       "exists"))
    /\ UNCHANGED <<client, topics, sink, config, constructed, upTopics, upSubs, upLog, objs, msgs>>

subscribe(s, topicName, subName, cb, options) ==
    subscribeUpTo(MaxObjs, s, topicName, subName, cb, options)

SubExists(subName) == \E p \in upSubs : p[2] = subName

\* subscription.exists() is answered by the service
UpstreamSubExists(s) ==
    /\ calls[s].op = "subscribe"
    /\ calls[s].pc = "exists_req"
    /\ \E ok \in BOOLEAN :
         Step(s, [calls[s] EXCEPT
                    !.pc = "exists_resp",
                    !.resp = IF ~ok THEN "TransportError"
                             ELSE IF SubExists(calls[s].sub) THEN "true"
                             ELSE "false"])
    /\ UNCHANGED <<client, topics, sink, config, constructed, upTopics, upSubs, upLog, objs, msgs>>

SubscribeAlwaysCreate(s) ==
    /\ calls[s].op = "subscribe"
    /\ calls[s].pc = "exists_resp"
    /\ LET c == calls[s]
       IN IF c.resp \in UpstreamErrors
          THEN Step(s, Finish(Reject(c, c.resp)))
          ELSE Step(s, Request(c, "create"))
    /\ UNCHANGED <<client, topics, sink, config, constructed, upTopics, upSubs, upLog, objs, msgs>>

\* .then((result) => { ... }) after subscription.exists()
SubscribeAfterExists(s) ==
    /\ calls[s].op = "subscribe"
    /\ calls[s].pc = "exists_resp"
    /\ LET c == calls[s]
       IN CASE c.resp \in UpstreamErrors -> Step(s, Finish(Reject(c, c.resp)))
            [] c.resp \notin UpstreamErrors /\ Exists(c.resp) ->
                 Step(s, [Emit(c, SuccessEvent(<<"Subscription already exists">>,
                                               <<c.topic, c.sub>>))
                            EXCEPT !.pc = "attach"])
            [] OTHER -> Step(s, Request(c, "create"))
    /\ UNCHANGED <<client, topics, sink, config, constructed, upTopics, upSubs, upLog, objs, msgs>>

\* subscription.create() is answered by the service
UpstreamSubCreate(s) ==
    /\ calls[s].op = "subscribe"
    /\ calls[s].pc = "create_req"
    /\ LET c == calls[s]
       IN \E ok \in BOOLEAN :
            LET r == IF ~ok THEN "TransportError"
                     ELSE IF SubExists(c.sub) THEN "AlreadyExists"
                     ELSE IF c.topic \notin upTopics THEN "NotFound"
                     ELSE "ok"
            IN /\ upSubs' = IF r = "ok" THEN upSubs \cup {<<c.topic, c.sub>>}
                            ELSE upSubs
               /\ Step(s, [c EXCEPT !.pc = "create_resp", !.resp = r])
    /\ UNCHANGED <<client, topics, sink, config, constructed, upTopics, upLog, objs, msgs>>

SubscribeAfterCreateLenient(s) ==
    /\ calls[s].op = "subscribe"
    /\ calls[s].pc = "create_resp"
    /\ LET c == calls[s]
       IN IF c.resp = "ok"
          THEN Step(s, [Emit(c, SuccessEvent(<<"Created subscription">>,
                                             <<c.topic, c.sub>>))
                          EXCEPT !.pc = "attach"])
          ELSE Step(s, [c EXCEPT !.pc = "attach"])
    /\ UNCHANGED <<client, topics, sink, config, constructed, upTopics, upSubs, upLog, objs, msgs>>

\* .then((res) => { this.success('Created subscription', ...); ... })
SubscribeAfterCreate(s) ==
    /\ calls[s].op = "subscribe"
    /\ calls[s].pc = "create_resp"
    /\ LET c == calls[s]
       IN IF c.resp = "ok"
          THEN Step(s, [Emit(c, SuccessEvent(<<"Created subscription">>,
                                             <<c.topic, c.sub>>))
                          EXCEPT !.pc = "attach"])
          ELSE Step(s, Finish(Reject(c, c.resp)))
    /\ UNCHANGED <<client, topics, sink, config, constructed, upTopics, upSubs, upLog, objs, msgs>>

SubscribeAttachShared(s) ==
    /\ calls[s].op = "subscribe"
    /\ calls[s].pc = "attach"
    /\ LET c == calls[s]
           same == {i \in DOMAIN objs : /\ objs[i].topic = c.topic
                                        /\ objs[i].sub = c.sub}
       IN IF same = {}
          THEN /\ objs' = Append(objs, AttachListeners(c.topic, c.sub, c.cb))
               /\ Step(s, Finish(Resolve([c EXCEPT !.obj = Len(objs) + 1], "true")))
          ELSE LET i == CHOOSE j \in same : TRUE
               IN /\ objs' = [objs EXCEPT ![i].msgL = Append(@, Wrapper(c.cb)),
                                           ![i].errL = @ + 1]
                  /\ Step(s, Finish(Resolve([c EXCEPT !.obj = i], "true")))
    /\ UNCHANGED <<client, topics, sink, config, constructed, upTopics, upSubs, upLog, msgs>>

\* .then((sub) => { sub.on('message', ...); sub.on('error', ...); return true; })
SubscribeAttach(s) ==
    /\ calls[s].op = "subscribe"
    /\ calls[s].pc = "attach"
    /\ LET c == calls[s]
       IN /\ objs' = Append(objs, AttachListeners(c.topic, c.sub, c.cb))
          /\ Step(s, Finish(Resolve([c EXCEPT !.obj = Len(objs) + 1], "true")))
    /\ UNCHANGED <<client, topics, sink, config, constructed, upTopics, upSubs, upLog, msgs>>

\* ---------------------------------- unsubscribe(topicName, subName, cb)
\* EventEmitter.removeListener(type, fn): removes the most recently added
\* listener that is the function fn itself; no listener is fn: no change
RECURSIVE RemoveListener(_, _)
RemoveListener(ls, fn) ==
    IF ls = <<>> THEN <<>>
    ELSE IF ls[Len(ls)] = fn THEN SubSeq(ls, 1, Len(ls) - 1)
    ELSE Append(RemoveListener(SubSeq(ls, 1, Len(ls) - 1), fn), ls[Len(ls)])

\* topic.subscription(subName) builds a new Subscription object on every call:
\* 0 stands for an object that is none of those subscribe attached listeners to
TopicSubscription(os, topicName, subName) == 0

MessageListeners(os, i) == IF i = 0 THEN <<>> ELSE os[i].msgL

RemoveAllOfSubscription(os, topicName, subName, cb) ==
    [i \in DOMAIN os |->
        IF os[i].sub = subName THEN [os[i] EXCEPT !.msgL = <<>>] ELSE os[i]]

\* const subscription = topic.subscription(subName);
\* subscription.removeListener('message', cb): the Subscription objects after it
UnsubscribeRemove(os, topicName, subName, cb) ==
    LET i == TopicSubscription(os, topicName, subName)
        ls == RemoveListener(MessageListeners(os, i), Fn(cb))
    IN IF i = 0 THEN os ELSE [os EXCEPT ![i].msgL = ls]

unsubscribe(s, topicName, subName, cb) ==
    /\ FreeSlot(s)
    /\ LET c0 == NewCall("unsubscribe", topicName, subName, cb, Null, Null, TRUE)
       IN IF ~HasHandle(topics, topicName)
          THEN \* this.topics[topicName] is undefined: topic.subscription throws
               /\ objs' = objs
               /\ Start(s, Finish(Reject(c0, "TypeError")))
          ELSE /\ objs' = UnsubscribeRemove(objs, topicName, subName, cb)
               /\ Start(s, Request(c0, "delete"))
    /\ UNCHANGED <<client, topics, sink, config, constructed, upTopics, upSubs, upLog, msgs>>

\* subscription.delete() is answered by the service
UpstreamSubDelete(s) ==
    /\ calls[s].op = "unsubscribe"
    /\ calls[s].pc = "delete_req"
    /\ LET c == calls[s]
       IN \E ok \in BOOLEAN :
            LET r == IF ~ok THEN "TransportError"
                     ELSE IF ~SubExists(c.sub) THEN "NotFound"
                     ELSE "ok"
            IN /\ upSubs' = IF r = "ok" THEN {p \in upSubs : p[2] # c.sub}
                            ELSE upSubs
               /\ Step(s, [c EXCEPT !.pc = "delete_resp", !.resp = r])
    /\ UNCHANGED <<client, topics, sink, config, constructed, upTopics, upLog, objs, msgs>>

UnsubscribeAfterDeleteLenient(s) ==
    /\ calls[s].op = "unsubscribe"
    /\ calls[s].pc = "delete_resp"
    /\ LET c == calls[s]
       IN Step(s, Finish(Resolve(
              Emit(c, LogEvent(<<"Removed listener from", c.topic, c.sub>>,
                               <<c.topic, c.sub>>)),
              "true")))
    /\ UNCHANGED <<client, topics, sink, config, constructed, upTopics, upSubs, upLog, objs, msgs>>

\* .then(() => { this.log(message, ...); return true; })
UnsubscribeAfterDelete(s) ==
    /\ calls[s].op = "unsubscribe"
    /\ calls[s].pc = "delete_resp"
    /\ LET c == calls[s]
       IN IF c.resp = "ok"
          THEN Step(s, Finish(Resolve(
                   Emit(c, LogEvent(<<"Removed listener from", c.topic, c.sub>>,
                                    <<c.topic, c.sub>>)),
                   "true")))
          ELSE Step(s, Finish(Reject(c, c.resp)))
    /\ UNCHANGED <<client, topics, sink, config, constructed, upTopics, upSubs, upLog, objs, msgs>>

\* ------------------------------------------------------------------ JSON
\* A JavaScript value is written in prefix form, as a tuple of strings: a
\* number of one digit d is <<"num", d>>, a string is its letters between
\* "str" and "end", an object is its members between "obj" and "endobj", a
\* member being its key between "key" and "end" followed by its value.
Str(letters) == <<"str">> \o letters \o <<"end">>
Member(key, value) == <<"key">> \o key \o <<"end">> \o value
Obj(members) == <<"obj">> \o members \o <<"endobj">>

\* the character of a byte
Chr(b) == CASE b = 123 -> "{" [] b = 125 -> "}" [] b = 34 -> "quote"
            [] b = 58 -> ":" [] b = 44 -> "," [] b = 49 -> "1" [] b = 55 -> "7"
            [] b = 97 -> "a" [] b = 98 -> "b" [] b = 99 -> "c" [] b = 100 -> "d"
            [] b = 101 -> "e" [] b = 102 -> "f" [] b = 105 -> "i"
            [] b = 108 -> "l"
            [] b = 109 -> "m" [] b = 110 -> "n" [] b = 111 -> "o"
            [] b = 112 -> "p" [] b = 113 -> "q" [] b = 114 -> "r"
            [] b = 116 -> "t" [] b = 120 -> "x" [] b = 121 -> "y"
            [] b = 73 -> "I" [] b = 84 -> "T"
            [] OTHER -> "?"

\* msg.data.toString(): the characters of the bytes
DataToString(bytes) == [i \in DOMAIN bytes |-> Chr(bytes[i])]

\* the byte of a character
Ord(ch) == CASE ch = "{" -> 123 [] ch = "}" -> 125 [] ch = "quote" -> 34
             [] ch = ":" -> 58 [] ch = "," -> 44 [] ch = "1" -> 49
             [] ch = "7" -> 55 [] ch = "a" -> 97 [] ch = "b" -> 98
             [] ch = "c" -> 99 [] ch = "d" -> 100 [] ch = "e" -> 101
             [] ch = "f" -> 102 [] ch = "i" -> 105 [] ch = "l" -> 108
             [] ch = "m" -> 109 [] ch = "n" -> 110 [] ch = "o" -> 111
             [] ch = "p" -> 112 [] ch = "q" -> 113 [] ch = "r" -> 114
             [] ch = "t" -> 116 [] ch = "x" -> 120 [] ch = "y" -> 121
             [] ch = "I" -> 73 [] ch = "T" -> 84
             [] OTHER -> 63

\* Buffer.from(text): the bytes of the characters
BufferFrom(text) == [i \in DOMAIN text |-> Ord(text[i])]

Digits == {"1", "7"}
Letters == {"a", "b", "c", "d", "e", "f", "i", "l", "m", "n", "o", "p", "q", "r",
            "t", "x", "y", "I", "T"}

\* the result of a parsing step that met a character it cannot accept
ParseFail == [ok |-> FALSE, out |-> <<>>, next |-> 0]

\* the letters of text from position i up to the closing quote
RECURSIVE ParseString(_, _, _)
ParseString(text, i, acc) ==
    IF i > Len(text) THEN ParseFail
    ELSE IF text[i] = "quote" THEN [ok |-> TRUE, out |-> acc, next |-> i + 1]
    ELSE IF text[i] \in Letters THEN ParseString(text, i + 1, Append(acc, text[i]))
    ELSE ParseFail

\* the value that starts at position i of text: a digit, a string in quotes,
\* or an object in braces
RECURSIVE ParseValue(_, _)
RECURSIVE ParseMembers(_, _, _)
ParseValue(text, i) ==
    IF i > Len(text) THEN ParseFail
    ELSE IF text[i] \in Digits
    THEN [ok |-> TRUE, out |-> <<"num", text[i]>>, next |-> i + 1]
    ELSE IF text[i] = "quote"
    THEN LET r == ParseString(text, i + 1, <<>>)
         IN IF r.ok THEN [ok |-> TRUE, out |-> Str(r.out), next |-> r.next]
            ELSE ParseFail
    ELSE IF text[i] = "{"
    THEN IF i + 1 <= Len(text) /\ text[i + 1] = "}"
         THEN [ok |-> TRUE, out |-> Obj(<<>>), next |-> i + 2]
         ELSE ParseMembers(text, i + 1, <<>>)
    ELSE ParseFail

\* the members of an object from position i of text up to its closing brace,
\* acc being the members before
ParseMembers(text, i, acc) ==
    IF i > Len(text) \/ text[i] # "quote" THEN ParseFail
    ELSE LET k == ParseString(text, i + 1, <<>>)
         IN IF ~k.ok \/ k.next > Len(text) \/ text[k.next] # ":" THEN ParseFail
            ELSE LET v == ParseValue(text, k.next + 1)
                     members == acc \o Member(k.out, v.out)
                 IN IF ~v.ok \/ v.next > Len(text) THEN ParseFail
                    ELSE IF text[v.next] = "}"
                    THEN [ok |-> TRUE, out |-> Obj(members), next |-> v.next + 1]
                    ELSE IF text[v.next] = ","
                    THEN ParseMembers(text, v.next + 1, members)
                    ELSE ParseFail

\* JSON.parse(text), for digits, strings of letters and objects of them; a
\* text that is not one of these to its end is a SyntaxError
JSONParse(text) ==
    LET r == ParseValue(text, 1)
    IN IF r.ok /\ r.next = Len(text) + 1 THEN r.out ELSE <<"SyntaxError">>

\* safeJSON(text): the parsed value, and the text itself (a string) when it
\* does not parse
SafeJSON(text) ==
    IF JSONParse(text) = <<"SyntaxError">> THEN <<"str">> \o text \o <<"end">>
    ELSE JSONParse(text)

\* the letters of value from position i up to "end"
RECURSIVE Letters_of(_, _, _)
Letters_of(value, i, acc) ==
    IF value[i] = "end" THEN [out |-> acc, next |-> i + 1]
    ELSE Letters_of(value, i + 1, Append(acc, value[i]))

\* the JSON text of the value that starts at position i of value
RECURSIVE StringifyValue(_, _)
RECURSIVE StringifyMembers(_, _, _)
StringifyValue(value, i) ==
    IF value[i] = "num" THEN [out |-> <<value[i + 1]>>, next |-> i + 2]
    ELSE IF value[i] = "str"
    THEN LET r == Letters_of(value, i + 1, <<>>)
         IN [out |-> <<"quote">> \o r.out \o <<"quote">>, next |-> r.next]
    ELSE StringifyMembers(value, i + 1, <<"{">>)

\* the JSON text of the members from position i up to "endobj", acc being the
\* text of the object so far
StringifyMembers(value, i, acc) ==
    IF value[i] = "endobj" THEN [out |-> Append(acc, "}"), next |-> i + 1]
    ELSE LET k == Letters_of(value, i + 1, <<>>)
             v == StringifyValue(value, k.next)
             sep == IF acc = <<"{">> THEN <<>> ELSE <<",">>
         IN StringifyMembers(value, v.next,
                acc \o sep \o <<"quote">> \o k.out \o <<"quote", ":">> \o v.out)

\* JSON.stringify(value)
JSONStringify(value) == StringifyValue(value, 1).out

\* ----------------------------- publish(topicName, content, meta, handle)
\* the value an argument of the caller stands for: the contents {x: 1} and {a: 7},
\* the metas {}, {replyTo: "q", correlationId: "d"} and {foo: "q"}
ValueOf(name) ==
    CASE name = "one" -> Obj(Member(<<"x">>, <<"num", "1">>))
      [] name = "seven" -> Obj(Member(<<"a">>, <<"num", "7">>))
      [] name = "{}" -> Obj(<<>>)
      [] name = "both"
           -> Obj(Member(<<"r", "e", "p", "l", "y", "T", "o">>, Str(<<"q">>))
                  \o Member(<<"c", "o", "r", "r", "e", "l", "a", "t", "i", "o", "n",
                              "I", "d">>, Str(<<"d">>)))
      [] name = "foo" -> Obj(Member(<<"f", "o", "o">>, Str(<<"q">>)))

\* the names of the members of an object whose members are not objects
Keys(value) ==
    {Letters_of(value, i + 1, <<>>).out : i \in {j \in DOMAIN value : value[j] = "key"}}

\* the fields meta is declared with: replyTo and correlationId
MetaFields == {<<"r", "e", "p", "l", "y", "T", "o">>,
               <<"c", "o", "r", "r", "e", "l", "a", "t", "i", "o", "n", "I", "d">>}

\* the object { content, meta }
Envelope(content, meta) ==
    Obj(Member(<<"c", "o", "n", "t", "e", "n", "t">>, ValueOf(content))
        \o Member(<<"m", "e", "t", "a">>, ValueOf(meta)))

ContentBytes(content, meta) == BufferFrom(JSONStringify(ValueOf(content)))

\* Buffer.from(JSON.stringify({ content, meta })): the bytes handed to publish
EnvelopeBytes(content, meta) == BufferFrom(JSONStringify(Envelope(content, meta)))

Publishing == {r \in Slots : /\ calls[r].op \in {"publish", "send",
                                                 "sendWithoutCover"}
                              /\ calls[r].pc = "publish_req"}

RECURSIVE SumLen(_, _)
SumLen(f, S) == IF S = {} THEN 0
                ELSE LET x == CHOOSE y \in S : TRUE
                     IN Len(f[x]) + SumLen(f, S \ {x})
Published == SumLen(upLog, Topics)

\* what the async function returns when handle === false: `return;` settles
\* the promise of publish with undefined, whatever becomes of publishPromise
ReturnUnhandled(c) == Resolve(c, "undefined")

publishNoAwait(limit, s, topicName, content, meta, handle) ==
    /\ FreeSlot(s)
    /\ LET c0 == NewCall("publish", topicName, Null, Null, content, meta, FALSE)
       IN IF ~HasHandle(topics, topicName)
          THEN Start(s, Finish(Reject(c0, "TypeError")))
          ELSE /\ Published + Cardinality(Publishing) < limit
               /\ Start(s, ReturnUnhandled(Request(c0, "publish")))
    /\ UNCHANGED <<client, topics, sink, config, constructed, upTopics, upSubs, upLog, objs, msgs>>

\* first segment of publish: the handle of the registry, publisher.publish of
\* the bytes of the envelope and, with handle false, `return;`.  limit bounds
\* the messages published in a behaviour.
publishUpTo(limit, s, topicName, content, meta, handle) ==
    /\ FreeSlot(s)
    /\ LET c0 == NewCall("publish", topicName, Null, Null, content, meta, handle)
       IN IF ~HasHandle(topics, topicName)
          THEN \* this.topics[topicName] is undefined: topic.publisher throws
               Start(s, Finish(Reject(c0, "TypeError")))
          ELSE /\ Published + Cardinality(Publishing) < limit
               /\ IF handle = FALSE
                  THEN Start(s, ReturnUnhandled(Request(c0, "publish")))
                  ELSE Start(s, Request(c0, "publish"))
    /\ UNCHANGED <<client, topics, sink, config, constructed, upTopics, upSubs, upLog, objs, msgs>>

publish(s, topicName, content, meta, handle) ==
    publishUpTo(MaxPublished, s, topicName, content, meta, handle)

\* publisher.publish(buffer) is answered by the service.  With handle false
\* nothing waits for the answer: a failure is an unhandled rejection.
UpstreamPublish(s) ==
    /\ calls[s].op = "publish"
    /\ calls[s].pc = "publish_req"
    /\ LET c == calls[s]
       IN \E ok \in BOOLEAN :
            LET r == IF ~ok THEN "TransportError"
                     ELSE IF c.topic \notin upTopics THEN "NotFound"
                     ELSE "ok"
            IN /\ upLog' = IF r = "ok"
                           THEN [upLog EXCEPT ![c.topic] =
                                    Append(@, EnvelopeBytes(c.content, c.meta))]
                           ELSE upLog
               /\ Step(s, [c EXCEPT !.pc = IF c.handle THEN "publish_resp" ELSE "done",
                                    !.resp = r])
    /\ UNCHANGED <<client, topics, sink, config, constructed, upTopics, upSubs, objs, msgs>>

\* publishPromise.catch((err) => { this.error(err, {...}); }): the call after
\* the handler ran.  emitter.emit('error', ...) throws when the emitter has no
\* 'error' listener, and the exception rejects the promise of the call.
CatchPublishError(c) ==
    LET e == ErrorEvent(c.resp, <<c.topic, c.content, c.meta>>)
    IN IF EmitThrows("error")
       THEN Reject(Emit(c, e), "UnhandledError")
       ELSE Resolve(Emit(c, e), "undefined")

PublishAfterRetry(s) ==
    /\ calls[s].op = "publish"
    /\ calls[s].pc = "publish_resp"
    /\ LET c == calls[s]
       IN IF c.resp = "ok"
          THEN Step(s, Finish(Resolve(c, "undefined")))
          ELSE IF Count(c.reqs, "publish") < 2
          THEN Step(s, Request(c, "publish"))
          ELSE Step(s, Finish(CatchPublishError(c)))
    /\ UNCHANGED <<client, topics, sink, config, constructed, upTopics, upSubs, upLog, objs, msgs>>

\* the segment after `await publishPromise.catch(...)`
PublishAfter(s) ==
    /\ calls[s].op = "publish"
    /\ calls[s].pc = "publish_resp"
    /\ LET c == calls[s]
       IN IF c.resp = "ok"
          THEN Step(s, Finish(Resolve(c, "undefined")))
          ELSE Step(s, Finish(CatchPublishError(c)))
    /\ UNCHANGED <<client, topics, sink, config, constructed, upTopics, upSubs, upLog, objs, msgs>>

\* -------------------------------- send(topicName, content, meta, handler)
sendViaRegistry(s, topicName, content, meta, handler) ==
    /\ FreeSlot(s)
    /\ LET c0 == NewCall("send", topicName, Null, Null, content, meta, handler)
       IN IF ~client \/ ~HasHandle(topics, topicName)
          THEN Start(s, Finish(Reject(c0, "TypeError")))
          ELSE /\ Published + Cardinality(Publishing) < MaxPublished
               /\ IF handler = FALSE
                  THEN Start(s, ReturnUnhandled(Request(c0, "publish")))
                  ELSE Start(s, Request(c0, "publish"))
    /\ UNCHANGED <<client, topics, sink, config, constructed, upTopics, upSubs, upLog, objs, msgs>>

\* first segment: this.client.topic(topicName), topic.publish(buffer of the
\* envelope) and, with handler false, `return;`
send(s, topicName, content, meta, handler) ==
    /\ FreeSlot(s)
    /\ LET c0 == NewCall("send", topicName, Null, Null, content, meta, handler)
       IN IF ~client
          THEN \* this.client is null: this.client.topic throws a TypeError
               Start(s, Finish(Reject(c0, "TypeError")))
          ELSE /\ Published + Cardinality(Publishing) < MaxPublished
               /\ IF handler = FALSE
                  THEN Start(s, ReturnUnhandled(Request(c0, "publish")))
                  ELSE Start(s, Request(c0, "publish"))
    /\ UNCHANGED <<client, topics, sink, config, constructed, upTopics, upSubs, upLog, objs, msgs>>

\* topic.publish(buffer) is answered by the service.  With handler false
\* nothing waits for the answer.
UpstreamSend(s) ==
    /\ calls[s].op = "send"
    /\ calls[s].pc = "publish_req"
    /\ LET c == calls[s]
       IN \E ok \in BOOLEAN :
            LET r == IF ~ok THEN "TransportError"
                     ELSE IF c.topic \notin upTopics THEN "NotFound"
                     ELSE "ok"
            IN /\ upLog' = IF r = "ok"
                           THEN [upLog EXCEPT ![c.topic] =
                                    Append(@, EnvelopeBytes(c.content, c.meta))]
                           ELSE upLog
               /\ Step(s, [c EXCEPT !.pc = IF c.handle THEN "publish_resp" ELSE "done",
                                    !.resp = r])
    /\ UNCHANGED <<client, topics, sink, config, constructed, upTopics, upSubs, objs, msgs>>

\* publishPromise.catch((err) => { this.error(err, {...}); }) of send
CatchSendError(c) ==
    LET e == ErrorEvent(c.resp, <<c.topic, c.content, c.meta>>)
    IN IF EmitThrows("error")
       THEN Reject(Emit(c, e), "UnhandledError")
       ELSE Resolve(Emit(c, e), "undefined")

\* the segment after `await publishPromise.catch(...)` of send
SendAfter(s) ==
    /\ calls[s].op = "send"
    /\ calls[s].pc = "publish_resp"
    /\ LET c == calls[s]
       IN IF c.resp = "ok"
          THEN Step(s, Finish(Resolve(c, "undefined")))
          ELSE Step(s, Finish(CatchSendError(c)))
    /\ UNCHANGED <<client, topics, sink, config, constructed, upTopics, upSubs, upLog, objs, msgs>>

\* ------------------------------ sendWithoutCover(topicName, data, handler)
\* topic.publish of a variant that writes the bytes as a JSON string
QuotedBytes(data) == <<34>> \o data \o <<34>>

\* topic.publish(data): the bytes handed upstream are the bytes given
RawBytes(data) == data

\* first segment: this.client.topic(topicName), topic.publish(data) and, with
\* handler false, `return;`
sendWithoutCover(s, topicName, data, handler) ==
    /\ FreeSlot(s)
    /\ LET c0 == [NewCall("sendWithoutCover", topicName, Null, Null, Null, Null,
                          handler) EXCEPT !.data = data]
       IN IF ~client
          THEN \* this.client is null: this.client.topic throws a TypeError
               Start(s, Finish(Reject(c0, "TypeError")))
          ELSE /\ Published + Cardinality(Publishing) < MaxPublished
               /\ IF handler = FALSE
                  THEN Start(s, ReturnUnhandled(Request(c0, "publish")))
                  ELSE Start(s, Request(c0, "publish"))
    /\ UNCHANGED <<client, topics, sink, config, constructed, upTopics, upSubs, upLog, objs, msgs>>

\* topic.publish(data) is answered by the service.  With handler false
\* nothing waits for the answer.
UpstreamSendWithoutCover(s) ==
    /\ calls[s].op = "sendWithoutCover"
    /\ calls[s].pc = "publish_req"
    /\ LET c == calls[s]
       IN \E ok \in BOOLEAN :
            LET r == IF ~ok THEN "TransportError"
                     ELSE IF c.topic \notin upTopics THEN "NotFound"
                     ELSE "ok"
            IN /\ upLog' = IF r = "ok"
                           THEN [upLog EXCEPT ![c.topic] =
                                    Append(@, RawBytes(c.data))]
                           ELSE upLog
               /\ Step(s, [c EXCEPT !.pc = IF c.handle THEN "publish_resp" ELSE "done",
                                    !.resp = r])
    /\ UNCHANGED <<client, topics, sink, config, constructed, upTopics, upSubs, objs, msgs>>

\* p.catch((err) => { this.error(err, { topicName, message: data }); })
CatchSendWithoutCoverError(c) ==
    LET e == ErrorEvent(c.resp, <<c.topic, "message">>)
    IN IF EmitThrows("error")
       THEN Reject(Emit(c, e), "UnhandledError")
       ELSE Resolve(Emit(c, e), "undefined")

\* the segment after `await p.catch(...)` of sendWithoutCover
SendWithoutCoverAfter(s) ==
    /\ calls[s].op = "sendWithoutCover"
    /\ calls[s].pc = "publish_resp"
    /\ LET c == calls[s]
       IN IF c.resp = "ok"
          THEN Step(s, Finish(Resolve(c, "undefined")))
          ELSE Step(s, Finish(CatchSendWithoutCoverError(c)))
    /\ UNCHANGED <<client, topics, sink, config, constructed, upTopics, upSubs, upLog, objs, msgs>>

\* ------------------------------------------------------ message delivery
\* a message as the client library hands it to the 'message' listeners: data
\* is the payload, given the callbacks invoked with an envelope of it, env the
\* data of those envelopes, threw whether a listener or a function of the
\* envelope threw
NewMessage(i, hasNack, hasSkip, data) ==
    [obj |-> i, nack |-> hasNack, skip |-> hasSkip,
     acked |-> FALSE, nacked |-> FALSE, skipped |-> FALSE,
     data |-> data, given |-> <<>>, env |-> <<>>, threw |-> FALSE,
     ackInvoked |-> FALSE, nackInvoked |-> FALSE, skipInvoked |-> FALSE]

\* an exception thrown while the envelope is built leaves the listener before
\* cb is called
Listen(l, m, data) ==
    IF data = <<"SyntaxError">> THEN [m EXCEPT !.threw = TRUE]
    ELSE [m EXCEPT !.given = Append(@, l.cb), !.env = Append(@, data)]

OnMessageAutoAck(l, m) ==
    IF l.fn = "wrapper"
    THEN [Listen(l, m, SafeJSON(DataToString(m.data))) EXCEPT !.acked = TRUE]
    ELSE m

OnMessageParsing(l, m) ==
    IF l.fn = "wrapper" THEN Listen(l, m, JSONParse(DataToString(m.data))) ELSE m

\* the 'message' listener of subscribe: builds the envelope {ack, nack, skip,
\* data} around msg, data being safeJSON(msg.data.toString()), and calls cb
\* with it; it calls none of ack, nack and skip itself
OnMessage(l, m) ==
    IF l.fn = "wrapper" THEN Listen(l, m, SafeJSON(DataToString(m.data))) ELSE m

\* EventEmitter.emit('message', msg): every listener in the order attached
RECURSIVE Dispatch(_, _)
Dispatch(ls, m) ==
    IF ls = <<>> THEN m ELSE Dispatch(Tail(ls), OnMessage(Head(ls), m))

\* a Subscription object with a 'message' listener delivers a message
Deliver(i, hasNack, hasSkip, data) ==
    /\ Len(msgs) < MaxMsgs
    /\ i \in DOMAIN objs
    /\ objs[i].msgL # <<>>
    /\ msgs' = Append(msgs, Dispatch(objs[i].msgL, NewMessage(i, hasNack, hasSkip, data)))
    /\ UNCHANGED <<client, topics, sink, config, constructed, upTopics, upSubs, upLog, calls, objs>>

\* the 'error' listener of subscribe: this.error(err, { topicName, subName });
\* emit('error') throws when the sink has no 'error' listener
OnError(o, err) ==
    [event |-> ErrorEvent(err, <<o.topic, o.sub>>), threw |-> EmitThrows("error")]

\* a Subscription object with an 'error' listener raises an error
SubscriptionError(i, err) ==
    /\ i \in DOMAIN objs
    /\ objs[i].errL = 1
    /\ Len(objs[i].errs) < MaxErrs
    /\ objs' = [objs EXCEPT ![i].errs = Append(@, OnError(objs[i], err))]
    /\ UNCHANGED <<client, topics, sink, config, constructed, upTopics, upSubs, upLog, calls, msgs>>

\* newmsg.ack = msg.ack.bind(msg)
EnvelopeAck(m) == [m EXCEPT !.acked = TRUE]
EnvelopeNackUnchecked(m) ==
    IF m.nack THEN [m EXCEPT !.nacked = TRUE] ELSE [m EXCEPT !.threw = TRUE]
\* newmsg.nack = msg.nack ? msg.nack.bind(msg) : () => {}
EnvelopeNack(m) == IF m.nack THEN [m EXCEPT !.nacked = TRUE] ELSE m
\* newmsg.skip = msg.skip ? msg.skip.bind(msg) : () => {}
EnvelopeSkip(m) == IF m.skip THEN [m EXCEPT !.skipped = TRUE] ELSE m

\* the caller's callback invokes ack() on the envelope it was given
CallbackAck(k) ==
    /\ k \in DOMAIN msgs
    /\ msgs[k].given # <<>>
    /\ ~msgs[k].ackInvoked
    /\ msgs' = [msgs EXCEPT ![k] = [EnvelopeAck(@) EXCEPT !.ackInvoked = TRUE]]
    /\ UNCHANGED <<client, topics, sink, config, constructed, upTopics, upSubs, upLog, calls, objs>>

\* the caller's callback invokes nack() on the envelope it was given
CallbackNack(k) ==
    /\ k \in DOMAIN msgs
    /\ msgs[k].given # <<>>
    /\ ~msgs[k].nackInvoked
    /\ msgs' = [msgs EXCEPT ![k] = [EnvelopeNack(@) EXCEPT !.nackInvoked = TRUE]]
    /\ UNCHANGED <<client, topics, sink, config, constructed, upTopics, upSubs, upLog, calls, objs>>

\* the caller's callback invokes skip() on the envelope it was given
CallbackSkip(k) ==
    /\ k \in DOMAIN msgs
    /\ msgs[k].given # <<>>
    /\ ~msgs[k].skipInvoked
    /\ msgs' = [msgs EXCEPT ![k] = [EnvelopeSkip(@) EXCEPT !.skipInvoked = TRUE]]
    /\ UNCHANGED <<client, topics, sink, config, constructed, upTopics, upSubs, upLog, calls, objs>>

\* ------------------------------------------------------- specifications
\* every promise returned so far has settled
Sequential == \A s \in Slots : calls[s].pc = "idle" \/ calls[s].result # "none"

\* Sequential use of the facade: the caller starts an operation only after the
\* promise of the previous one settled.  (A publish with handle false settles
\* at once, so its request may still be in flight when the next one starts.)
Next ==
    \/ \E s \in Slots : Sequential /\ init(s)
    \/ \E s \in Slots : UpstreamList(s)
    \/ \E s \in Slots : InitThen(s)
    \/ \E s \in Slots, name \in Topics : Sequential /\ createTopic(s, name)
    \/ \E s \in Slots : UpstreamTopicExists(s)
    \/ \E s \in Slots : CreateTopicAfterExists(s)
    \/ \E s \in Slots : UpstreamTopicCreate(s)
    \/ \E s \in Slots : CreateTopicAfterCreate(s)
    \/ \E s \in Slots, name \in Topics : Sequential /\ deleteTopic(s, name)
    \/ \E s \in Slots : UpstreamTopicDelete(s)
    \/ \E s \in Slots : DeleteTopicAfterDelete(s)
    \/ \E s \in Slots, t \in Topics, n \in SubNames, cb \in Callbacks,
             o \in UsualOptions :
          Sequential /\ subscribe(s, t, n, cb, o)
    \/ \E s \in Slots : UpstreamSubExists(s)
    \/ \E s \in Slots : SubscribeAfterExists(s)
    \/ \E s \in Slots : UpstreamSubCreate(s)
    \/ \E s \in Slots : SubscribeAfterCreate(s)
    \/ \E s \in Slots : SubscribeAttach(s)
    \/ \E s \in Slots, t \in Topics, n \in SubNames, cb \in Callbacks :
          Sequential /\ unsubscribe(s, t, n, cb)
    \/ \E s \in Slots : UpstreamSubDelete(s)
    \/ \E s \in Slots : UnsubscribeAfterDelete(s)
    \/ \E s \in Slots, t \in Topics, c \in Contents, m \in Metas, h \in BOOLEAN :
          Sequential /\ publish(s, t, c, m, h)
    \/ \E s \in Slots : UpstreamPublish(s)
    \/ \E s \in Slots : PublishAfter(s)

Spec == Init /\ [][Next]_vars

\* Subscriptions delivering messages that do and do not support nack and
\* skip, the callback invoking ack, nack and skip on the envelopes it is given.
NextEnvelope ==
    \/ \E s \in Slots : Sequential /\ init(s)
    \/ \E s \in Slots : UpstreamList(s)
    \/ \E s \in Slots : InitThen(s)
    \/ \E s \in Slots, name \in Topics : Sequential /\ createTopic(s, name)
    \/ \E s \in Slots : UpstreamTopicExists(s)
    \/ \E s \in Slots : CreateTopicAfterExists(s)
    \/ \E s \in Slots : UpstreamTopicCreate(s)
    \/ \E s \in Slots : CreateTopicAfterCreate(s)
    \/ \E s \in Slots, t \in Topics, n \in SubNames, cb \in Callbacks,
             o \in UsualOptions :
          Sequential /\ subscribe(s, t, n, cb, o)
    \/ \E s \in Slots : UpstreamSubExists(s)
    \/ \E s \in Slots : SubscribeAfterExists(s)
    \/ \E s \in Slots : UpstreamSubCreate(s)
    \/ \E s \in Slots : SubscribeAfterCreate(s)
    \/ \E s \in Slots : SubscribeAttach(s)
    \/ \E i \in 1..MaxObjs, n \in BOOLEAN, k \in BOOLEAN, d \in RawPayloads :
          Deliver(i, n, k, d)
    \/ \E k \in 1..MaxMsgs : CallbackAck(k)
    \/ \E k \in 1..MaxMsgs : CallbackNack(k)
    \/ \E k \in 1..MaxMsgs : CallbackSkip(k)

SpecEnvelope == Init /\ [][NextEnvelope]_vars

\* A chain of publish calls with the default meta and the default handle,
\* each started after the one before settled.
NextChain ==
    \/ \E s \in Slots : Sequential /\ init(s)
    \/ \E s \in Slots : UpstreamList(s)
    \/ \E s \in Slots : InitThen(s)
    \/ \E s \in Slots, name \in Topics : Sequential /\ createTopic(s, name)
    \/ \E s \in Slots : UpstreamTopicExists(s)
    \/ \E s \in Slots : CreateTopicAfterExists(s)
    \/ \E s \in Slots : UpstreamTopicCreate(s)
    \/ \E s \in Slots : CreateTopicAfterCreate(s)
    \/ \E s \in Slots, t \in Topics, c \in SendContents :
          Sequential /\ publishUpTo(MaxChain, s, t, c, "{}", TRUE)
    \/ \E s \in Slots : UpstreamPublish(s)
    \/ \E s \in Slots : PublishAfter(s)

SpecChain == Init /\ [][NextChain]_vars

\* Several subscribe calls, on the same subscription or on different ones,
\* the Subscription objects delivering messages.
NextSubscribers ==
    \/ \E s \in Slots : Sequential /\ init(s)
    \/ \E s \in Slots : UpstreamList(s)
    \/ \E s \in Slots : InitThen(s)
    \/ \E s \in Slots, name \in Topics : Sequential /\ createTopic(s, name)
    \/ \E s \in Slots : UpstreamTopicExists(s)
    \/ \E s \in Slots : CreateTopicAfterExists(s)
    \/ \E s \in Slots : UpstreamTopicCreate(s)
    \/ \E s \in Slots : CreateTopicAfterCreate(s)
    \/ \E s \in Slots, t \in Topics, n \in SubNames, cb \in Callbacks,
             o \in UsualOptions :
          Sequential /\ subscribeUpTo(MaxSubscribers, s, t, n, cb, o)
    \/ \E s \in Slots : UpstreamSubExists(s)
    \/ \E s \in Slots : SubscribeAfterExists(s)
    \/ \E s \in Slots : UpstreamSubCreate(s)
    \/ \E s \in Slots : SubscribeAfterCreate(s)
    \/ \E s \in Slots : SubscribeAttach(s)
    \/ \E i \in 1..MaxSubscribers, d \in RawPayloads : Deliver(i, TRUE, TRUE, d)

SpecSubscribers == Init /\ [][NextSubscribers]_vars

\* Sequential use of all eight operations of the facade.
NextAll ==
    \/ Next
    \/ \E s \in Slots, t \in Topics, c \in Contents, m \in Metas, h \in BOOLEAN :
          Sequential /\ send(s, t, c, m, h)
    \/ \E s \in Slots : UpstreamSend(s)
    \/ \E s \in Slots : SendAfter(s)
    \/ \E s \in Slots, t \in Topics, d \in RawPayloads, h \in BOOLEAN :
          Sequential /\ sendWithoutCover(s, t, d, h)
    \/ \E s \in Slots : UpstreamSendWithoutCover(s)
    \/ \E s \in Slots : SendWithoutCoverAfter(s)

SpecAll == Init /\ [][NextAll]_vars

\* Sequential use of the subscription operations, with the Subscription
\* objects delivering messages to the listeners attached to them.
NextDeliver ==
    \/ \E s \in Slots : Sequential /\ init(s)
    \/ \E s \in Slots : UpstreamList(s)
    \/ \E s \in Slots : InitThen(s)
    \/ \E s \in Slots, name \in Topics : Sequential /\ createTopic(s, name)
    \/ \E s \in Slots : UpstreamTopicExists(s)
    \/ \E s \in Slots : CreateTopicAfterExists(s)
    \/ \E s \in Slots : UpstreamTopicCreate(s)
    \/ \E s \in Slots : CreateTopicAfterCreate(s)
    \/ \E s \in Slots, t \in Topics, n \in SubNames, cb \in Callbacks,
             o \in UsualOptions :
          Sequential /\ subscribe(s, t, n, cb, o)
    \/ \E s \in Slots : UpstreamSubExists(s)
    \/ \E s \in Slots : SubscribeAfterExists(s)
    \/ \E s \in Slots : UpstreamSubCreate(s)
    \/ \E s \in Slots : SubscribeAfterCreate(s)
    \/ \E s \in Slots : SubscribeAttach(s)
    \/ \E s \in Slots, t \in Topics, n \in SubNames, cb \in Callbacks :
          Sequential /\ unsubscribe(s, t, n, cb)
    \/ \E s \in Slots : UpstreamSubDelete(s)
    \/ \E s \in Slots : UnsubscribeAfterDelete(s)
    \/ \E i \in 1..MaxObjs, n \in BOOLEAN, d \in Payloads :
          Deliver(i, n, FALSE, d)
    \/ \E i \in 1..MaxObjs, e \in StreamErrors : SubscriptionError(i, e)
    \/ \E k \in 1..MaxMsgs : CallbackAck(k)
    \/ \E k \in 1..MaxMsgs : CallbackNack(k)

SpecDeliver == Init /\ [][NextDeliver]_vars

\* The same, the event loop running the callback that attaches the listeners
\* once the promise it is chained to is fulfilled.  Nothing obliges a
\* subscription to deliver a message, nor the caller to make another call.
SpecDeliverFair ==
    SpecDeliver /\ \A s \in Slots : WF_vars(SubscribeAttach(s))

\* Overlapping use of the registry operations: a second call may start while
\* another one is in flight.
NextOverlap ==
    \/ \E s \in Slots : init(s)
    \/ \E s \in Slots : UpstreamList(s)
    \/ \E s \in Slots : InitThen(s)
    \/ \E s \in Slots, name \in Topics : createTopic(s, name)
    \/ \E s \in Slots : UpstreamTopicExists(s)
    \/ \E s \in Slots : CreateTopicAfterExists(s)
    \/ \E s \in Slots : UpstreamTopicCreate(s)
    \/ \E s \in Slots : CreateTopicAfterCreate(s)
    \/ \E s \in Slots, name \in Topics : deleteTopic(s, name)
    \/ \E s \in Slots : UpstreamTopicDelete(s)
    \/ \E s \in Slots : DeleteTopicAfterDelete(s)

SpecOverlap == Init /\ [][NextOverlap]_vars

\* Sequential use of the publishing operations: publish through the
\* registry, send through the client.
NextSend ==
    \/ \E s \in Slots : Sequential /\ init(s)
    \/ \E s \in Slots : UpstreamList(s)
    \/ \E s \in Slots : InitThen(s)
    \/ \E s \in Slots, name \in Topics : Sequential /\ createTopic(s, name)
    \/ \E s \in Slots : UpstreamTopicExists(s)
    \/ \E s \in Slots : CreateTopicAfterExists(s)
    \/ \E s \in Slots : UpstreamTopicCreate(s)
    \/ \E s \in Slots : CreateTopicAfterCreate(s)
    \/ \E s \in Slots, t \in Topics, c \in SendContents, m \in SendMetas,
          h \in BOOLEAN :
          Sequential /\ publish(s, t, c, m, h)
    \/ \E s \in Slots : UpstreamPublish(s)
    \/ \E s \in Slots : PublishAfter(s)
    \/ \E s \in Slots, t \in Topics, c \in SendContents, m \in SendMetas,
          h \in BOOLEAN :
          Sequential /\ send(s, t, c, m, h)
    \/ \E s \in Slots : UpstreamSend(s)
    \/ \E s \in Slots : SendAfter(s)
    \/ \E s \in Slots, t \in Topics, d \in Payloads, h \in BOOLEAN :
          Sequential /\ sendWithoutCover(s, t, d, h)
    \/ \E s \in Slots : UpstreamSendWithoutCover(s)
    \/ \E s \in Slots : SendWithoutCoverAfter(s)

SpecSend == Init /\ [][NextSend]_vars

\* Sequential use of init, createTopic and subscribe on a facade constructed
\* with any of the configurations, subscribe being given any of the options.
NextConfig ==
    \/ \E s \in Slots : Sequential /\ init(s)
    \/ \E s \in Slots : UpstreamList(s)
    \/ \E s \in Slots : InitThen(s)
    \/ \E s \in Slots, name \in Topics : Sequential /\ createTopic(s, name)
    \/ \E s \in Slots : UpstreamTopicExists(s)
    \/ \E s \in Slots : CreateTopicAfterExists(s)
    \/ \E s \in Slots : UpstreamTopicCreate(s)
    \/ \E s \in Slots : CreateTopicAfterCreate(s)
    \/ \E s \in Slots, t \in Topics, n \in SubNames, cb \in Callbacks,
             o \in OptionChoices :
          Sequential /\ subscribe(s, t, n, cb, o)
    \/ \E s \in Slots : UpstreamSubExists(s)
    \/ \E s \in Slots : SubscribeAfterExists(s)
    \/ \E s \in Slots : UpstreamSubCreate(s)
    \/ \E s \in Slots : SubscribeAfterCreate(s)
    \/ \E s \in Slots : SubscribeAttach(s)

SpecConfig == InitConfig /\ [][NextConfig]_vars

\* ------------------------------------------------------------- properties
\* the call in slot s settled in its last segment and is still on record
Done(c, op) == c.op = op /\ c.pc = "done"

\* a segment of a call of operation op ran in this step and left slot s as c
Ran(s, op) == calls'[s].op = op /\ calls'[s] # calls[s]

\* C1: a publish with handle = true on a registered topic whose upstream
\* publish fails resolves (never rejects), and exactly one error event with
\* the failure, the topic name, the content and the meta is emitted.
C1_HandledPublishFailureResolves ==
    \A s \in Slots :
        LET c == calls[s]
        IN (Done(c, "publish") /\ c.handle /\ c.resp \in UpstreamErrors)
             => /\ c.result = "resolved"
                /\ c.events = <<ErrorEvent(c.resp, <<c.topic, c.content, c.meta>>)>>

\* C2: a publish with handle = false on a registered topic whose upstream
\* publish fails returns a promise that rejects, and emits no error event.
C2_UnhandledPublishFailureRejects ==
    \A s \in Slots :
        LET c == calls[s]
        IN (c.op = "publish" /\ ~c.handle /\ c.resp \in UpstreamErrors)
             => /\ c.result = "rejected"
                /\ c.events = <<>>

\* C3: createTopic(name) started right after a createTopic(name) resolved, on
\* a ready facade whose exists request is answered by the service: the call
\* resolves to true, emits the success event 'Topic "name" already exists'
\* and issues no upstream create; every createTopic that resolves resolves to
\* true and issues the upstream create at most once.
C3_CreateTopicTwiceIdempotent ==
    \A s \in Slots :
        LET c == calls[s]
        IN /\ (Done(c, "createTopic") /\ c.follows /\ c.resp # "TransportError")
                => /\ c.result = "resolved"
                   /\ c.value = "true"
                   /\ c.events[Len(c.events)]
                        = SuccessEvent(<<"Topic", c.topic, "already exists">>, NoData)
                   /\ Count(c.reqs, "create") = 0
           /\ c.op = "createTopic"
                => /\ Count(c.reqs, "create") <= 1
                   /\ c.result = "resolved" => c.value = "true"

C3_SecondCreateResolved ==
    \E s \in Slots : /\ Done(calls[s], "createTopic")
                     /\ calls[s].follows
                     /\ calls[s].result = "resolved"
                     /\ calls[s].reqs = <<"exists">>

\* C4: whenever createTopic(name) resolves it resolves to true, the registry
\* holds a handle for name and the topic exists upstream, whether the topic
\* existed already or was created by the call.
C4_CreateTopicRegisters ==
    \A s \in Slots :
        LET c == calls[s]
        IN (Done(c, "createTopic") /\ c.result = "resolved")
             => /\ c.value = "true"
                /\ client
                /\ c.topic \in topics
                /\ c.topic \in upTopics
                /\ c.reqs \in {<<"exists">>, <<"exists", "create">>}

\* "t1" exists upstream before construction: a call that had to create it
\* comes after a call that registered the existing topic and a deleteTopic
C4_CreatedAfterExisting ==
    \E s \in Slots : /\ Done(calls[s], "createTopic")
                     /\ calls[s].topic = "t1"
                     /\ calls[s].result = "resolved"
                     /\ calls[s].reqs = <<"exists", "create">>

\* C5: subscribe, unsubscribe and publish called with a topic name that is not
\* in the registry reject in their first segment, without an upstream request,
\* without attaching or removing a listener and without changing the registry.
C5_UnregisteredTopicRejects ==
    [][\A s \in Slots :
          (/\ \E op \in {"subscribe", "unsubscribe", "publish"} : Ran(s, op)
           /\ ~Busy(calls[s])
           /\ calls'[s].topic \notin topics)
            => /\ calls'[s].pc = "done"
               /\ calls'[s].result = "rejected"
               /\ calls'[s].reqs = <<>>
               /\ topics' = topics
               /\ objs' = objs
               /\ <<upTopics, upSubs, upLog>>' = <<upTopics, upSubs, upLog>>]_vars

C5_RejectedUnregistered ==
    \E s \in Slots : /\ Done(calls[s], "publish")
                     /\ calls[s].result = "rejected"
                     /\ calls[s].reqs = <<>>
                     /\ calls[s].topic \notin topics
                     /\ topics # {}

\* C6: deleteTopic(name) on a registered name whose upstream delete succeeds
\* resolves to true after one log event, with the topic deleted upstream and
\* name out of the registry; and a name leaves the registry only in the
\* segment that follows a successful upstream delete of that name.
C6_DeleteTopicAfterUpstream ==
    [][/\ \A n \in Topics :
             (n \in topics /\ n \notin topics')
               => \E s \in Slots : /\ calls[s].op = "deleteTopic"
                                   /\ calls[s].topic = n
                                   /\ calls[s].pc = "delete_resp"
                                   /\ calls[s].resp = "ok"
                                   /\ n \notin upTopics
       /\ \A s \in Slots :
             (Ran(s, "deleteTopic") /\ calls'[s].pc = "done" /\ calls'[s].resp = "ok")
               => /\ calls'[s].result = "resolved"
                  /\ calls'[s].value = "true"
                  /\ calls'[s].reqs = <<"delete">>
                  /\ calls'[s].events
                       = <<LogEvent(<<"Deleted topic", calls'[s].topic>>, NoData)>>
                  /\ calls'[s].topic \notin topics'
                  /\ calls'[s].topic \notin upTopics']_vars

C6_DeletedTopic ==
    \E s \in Slots : /\ Done(calls[s], "deleteTopic")
                     /\ calls[s].result = "resolved"
                     /\ calls[s].topic \notin topics

\* C7: deleteTopic(name) on a name that is not registered rejects in its first
\* segment: no upstream delete is issued, no event is emitted and the
\* registry is unchanged.
C7_DeleteUnregisteredRejects ==
    [][\A s \in Slots :
          (Ran(s, "deleteTopic") /\ ~Busy(calls[s]) /\ calls'[s].topic \notin topics)
            => /\ calls'[s].pc = "done"
               /\ calls'[s].result = "rejected"
               /\ calls'[s].reqs = <<>>
               /\ calls'[s].events = <<>>
               /\ topics' = topics
               /\ upTopics' = upTopics]_vars

C7_RejectedDelete ==
    \E s \in Slots : /\ Done(calls[s], "deleteTopic")
                     /\ calls[s].result = "rejected"
                     /\ calls[s].reqs = <<>>
                     /\ client

\* C8: after unsubscribe(topic, sub, cb) resolved, the message listener that
\* subscribe(topic, sub, cb) attached for cb is attached to no Subscription
\* object of that subscription.
C8_UnsubscribeRemovesListener ==
    \A s \in Slots :
        LET c == calls[s]
        IN (Done(c, "unsubscribe") /\ c.result = "resolved")
             => \A i \in DOMAIN objs :
                   (objs[i].topic = c.topic /\ objs[i].sub = c.sub)
                     => Wrapper(c.cb) \notin Range(objs[i].msgL)

\* C9: unsubscribe(topic, sub, other) leaves attached every message listener
\* that subscribe attached for a callback different from other, in every
\* segment of the call, and rejects only for an unregistered topic or with
\* the error of the upstream delete.
C9_MismatchedUnsubscribeKeepsListener ==
    [][\A s \in Slots :
          Ran(s, "unsubscribe")
            => LET c == calls'[s]
               IN /\ \A i \in DOMAIN objs :
                        Wrapper(c.cb) \notin Range(objs[i].msgL)
                          => /\ i \in DOMAIN objs'
                             /\ objs'[i].msgL = objs[i].msgL
                  /\ c.result = "rejected"
                       => \/ c.value = "TypeError" /\ c.topic \notin topics
                          \/ c.value \in UpstreamErrors /\ c.value = c.resp
                  /\ (c.pc = "done" /\ c.resp = "ok") => c.result = "resolved"]_vars

C9_MismatchedUnsubscribeResolved ==
    \E s \in Slots, i \in DOMAIN objs :
        /\ Done(calls[s], "unsubscribe")
        /\ calls[s].result = "resolved"
        /\ objs[i].topic = calls[s].topic
        /\ objs[i].sub = calls[s].sub
        /\ objs[i].msgL # <<>>
        /\ Wrapper(calls[s].cb) \notin Range(objs[i].msgL)

\* C10: the message's ack (nack) has been invoked exactly when the callback
\* invoked ack() (nack(), on a message that has a nack) on the envelope it
\* was given; a message whose callback did not call ack is unacknowledged.
C10_NoAutoAck ==
    \A k \in DOMAIN msgs :
        /\ msgs[k].acked <=> msgs[k].ackInvoked
        /\ msgs[k].nacked <=> (msgs[k].nackInvoked /\ msgs[k].nack)
        /\ (msgs[k].ackInvoked \/ msgs[k].nackInvoked) => msgs[k].given # <<>>

C10_DeliveredThenAcked ==
    \E k \in DOMAIN msgs : /\ msgs[k].given # <<>>
                           /\ msgs[k].acked
                           /\ ~msgs[k].nacked

\* C17: the client handle changes only in the segment of init() that follows a
\* successful list-topics answer, where it becomes the connected client; an
\* init() whose check succeeded resolves to the facade itself after exactly
\* the 'Using config' log event and then the one success event.
C17_InitReadyAfterCheck ==
    [][/\ client' # client
            => /\ client'
               /\ \E s \in Slots : /\ calls[s].op = "init"
                                   /\ calls[s].pc = "list_resp"
                                   /\ calls[s].resp = "ok"
       /\ \A s \in Slots :
             (Ran(s, "init") /\ calls'[s].pc = "done" /\ calls'[s].resp = "ok")
               => /\ calls'[s].result = "resolved"
                  /\ calls'[s].value = "this"
                  /\ client'
                  /\ calls'[s].reqs = <<"list">>
                  /\ calls'[s].events
                       = <<LogEvent(<<"Using config">>, UsingConfig(config)),
                           Connected(config)>>]_vars

C17_InitResolved ==
    \E s \in Slots : /\ Done(calls[s], "init")
                     /\ calls[s].result = "resolved"
                     /\ client

\* C18: an init() whose list-topics check fails rejects with that failure;
\* the check was issued once, the only event is the initial log event, and
\* the client handle and the registry are what they were before the call.
C18_InitFailureRejects ==
    [][\A s \in Slots :
          /\ (Ran(s, "init") /\ calls[s].pc = "list_resp"
                            /\ calls[s].resp \in UpstreamErrors)
               => /\ calls'[s].pc = "done"
                  /\ calls'[s].result = "rejected"
                  /\ calls'[s].value = calls[s].resp
                  /\ calls'[s].reqs = <<"list">>
                  /\ calls'[s].events
                       = <<LogEvent(<<"Using config">>, UsingConfig(config))>>
          /\ Ran(s, "init")
               => (calls'[s].resp # "ok" => /\ client' = client
                                           /\ topics' = topics)]_vars

C18_FirstInitRejected ==
    \E s \in Slots : /\ Done(calls[s], "init")
                     /\ calls[s].result = "rejected"
                     /\ ~client
                     /\ topics = {}

\* C15: the Subscription object of every subscribe call on a registered topic
\* is obtained with flowControl.maxMessages equal to options.maxInProgress
\* when given and 1 otherwise, and with ackDeadline equal to
\* options.ackDeadlineSeconds when given (0 included) and otherwise to the
\* ack_deadline_seconds of the configuration, 300 when it has none.
C15_SubscribeOptionDefaults ==
    \A s \in Slots :
        LET c == calls[s]
        IN (c.op = "subscribe" /\ c.reqs # <<>>)
             => \E cfg \in ConfigChoices :
                  /\ DOMAIN config = DOMAIN cfg \cup {"ack_deadline_seconds"}
                  /\ \A k \in DOMAIN cfg : config[k] = cfg[k]
                  /\ c.opts.flowControl.maxMessages
                       = (IF c.options.maxInProgress = Undefined THEN 1
                          ELSE c.options.maxInProgress)
                  /\ c.opts.ackDeadline
                       = (IF c.options.ackDeadlineSeconds # Undefined
                          THEN c.options.ackDeadlineSeconds
                          ELSE IF "ack_deadline_seconds" \in DOMAIN cfg
                          THEN cfg.ack_deadline_seconds
                          ELSE 300)

\* subscribe resolved with ackDeadlineSeconds 0 given, and with no option
\* given on a facade whose configuration sets no ack deadline
C15_SubscribedWithZeroDeadline ==
    \E s \in Slots : /\ Done(calls[s], "subscribe")
                     /\ calls[s].result = "resolved"
                     /\ calls[s].options.ackDeadlineSeconds = 0
                     /\ calls[s].opts.ackDeadline = 0

\* C16: construction succeeds for every configuration that has a projectId
\* and throws for every configuration that has none, so that no instance
\* exists and no call is made on one.
C16_ConstructionValidates ==
    /\ "projectId" \in DOMAIN config => constructed
    /\ "projectId" \notin DOMAIN config
         => /\ ~constructed
            /\ \A s \in Slots : calls[s].reqs = <<>>

\* C19: the events of an init() call are those the same call emits on a
\* facade whose configuration has any other private key, and neither the
\* message nor the data of any of them holds the private key.
C19_InitEventsHideKey ==
    \A s \in Slots, k \in PrivateKeys :
        LET c == calls[s]
            other == IF "credentials" \in DOMAIN config
                     THEN [config EXCEPT !.credentials.private_key = k]
                     ELSE config
            stream == <<LogEvent(<<"Using config">>, UsingConfig(other)),
                        Connected(other)>>
        IN c.op = "init"
             => /\ Len(c.events) <= Len(stream)
                /\ c.events = SubSeq(stream, 1, Len(c.events))
                /\ "credentials" \in DOMAIN config
                     => \A i \in DOMAIN c.events :
                          config.credentials.private_key
                            \notin Range(c.events[i].message) \cup Range(c.events[i].data)

C19_InitWithCredentialsResolved ==
    \E s \in Slots : /\ Done(calls[s], "init")
                     /\ calls[s].result = "resolved"
                     /\ "credentials" \in DOMAIN config
                     /\ Len(calls[s].events) = 2

\* C14: the segment of subscribe after the answer to exists: when the
\* subscription exists it issues no create and emits the one success event;
\* otherwise it issues the one create on the Subscription object obtained
\* with the options, and the segment after a successful create emits the one
\* success event.  No listener is attached in these segments: the attaching
\* segment starts with exactly one success event emitted, and after at most
\* one create.
C14_SubscribeCreatesOnce ==
    [][\A s \in Slots :
          Ran(s, "subscribe")
            => LET c == calls[s]
                   d == calls'[s]
                   successes(e) == Cardinality({i \in DOMAIN e : e[i].type = "success"})
               IN /\ (c.pc = "exists_resp" /\ c.resp \notin UpstreamErrors
                                           /\ SubExists(c.sub))
                       => /\ d.pc = "attach"
                          /\ d.reqs = <<"exists">>
                          /\ successes(d.events) = 1
                          /\ objs' = objs
                  /\ (c.pc = "exists_resp" /\ c.resp \notin UpstreamErrors
                                           /\ ~SubExists(c.sub))
                       => /\ d.pc = "create_req"
                          /\ d.reqs = <<"exists", "create">>
                          /\ d.opts = SubscriptionOptions(d.options, config)
                          /\ successes(d.events) = 0
                          /\ objs' = objs
                  /\ (c.pc = "create_resp" /\ c.resp = "ok")
                       => /\ d.pc = "attach"
                          /\ d.reqs = <<"exists", "create">>
                          /\ successes(d.events) = 1
                          /\ objs' = objs
                  /\ c.pc = "attach"
                       => /\ successes(c.events) = 1
                          /\ Count(c.reqs, "create") <= 1
                          /\ d.events = c.events
                          /\ Len(objs') = Len(objs) + 1]_vars

\* a subscribe that found its subscription upstream resolved
C14_AttachedToExisting ==
    \E s \in Slots : /\ Done(calls[s], "subscribe")
                     /\ calls[s].result = "resolved"
                     /\ calls[s].reqs = <<"exists">>
                     /\ objs # <<>>

\* C13: a subscribe call that resolved resolved to true with its message
\* listener and its error listener attached to its Subscription object, and
\* a call still in flight has attached nothing; once the subscription is
\* found or created the call resolves, whether or not a message is ever
\* delivered.
C13_SubscribeResolvesWhenAttached ==
    /\ [](\A s \in Slots :
            LET c == calls[s]
            IN /\ (Done(c, "subscribe") /\ c.result = "resolved")
                    => /\ c.value = "true"
                       /\ c.obj \in DOMAIN objs
                       /\ Wrapper(c.cb) \in Range(objs[c.obj].msgL)
                       /\ objs[c.obj].errL = 1
               /\ (c.op = "subscribe" /\ Busy(c))
                    => /\ c.result = "none"
                       /\ c.obj = 0)
    /\ \A s \in Slots :
          (calls[s].op = "subscribe" /\ calls[s].pc = "attach")
            ~> (Done(calls[s], "subscribe") /\ calls[s].result = "resolved")

\* subscribe resolved and no message has been delivered
C13_ResolvedBeforeAnyMessage ==
    \E s \in Slots : /\ Done(calls[s], "subscribe")
                     /\ calls[s].result = "resolved"
                     /\ msgs = <<>>

\* C11: for every message a subscription delivered, no exception left the
\* message listener and the callback was invoked exactly once, with an
\* envelope; the payload {"a":1} yields the object with a = 1, the payload 7
\* yields the number 7, and the malformed payload {bad yields a fallback
\* value (its text) instead.
C11_ListenerNeverThrows ==
    \A k \in DOMAIN msgs :
        LET m == msgs[k]
        IN /\ ~m.threw
           /\ m.given = <<objs[m.obj].msgL[1].cb>>
           /\ Len(m.env) = 1
           /\ m.data = <<123, 34, 97, 34, 58, 49, 125>>
                => m.env[1] = <<"obj", "key", "a", "end", "num", "1", "endobj">>
           /\ m.data = <<55>>
                => m.env[1] = <<"num", "7">>
           /\ m.data = <<123, 98, 97, 100>>
                => m.env[1] = <<"str", "{", "b", "a", "d", "end">>

\* the malformed payload was delivered to the callback
C11_MalformedDelivered ==
    \E k \in DOMAIN msgs : /\ msgs[k].data = <<123, 98, 97, 100>>
                           /\ msgs[k].given # <<>>

\* C12: every error a Subscription object raised after subscribe attached its
\* listeners was forwarded as one error event carrying the error, the topic
\* name and the subscription name, and the error listener did not throw.
C12_SubscriptionErrorForwarded ==
    \A i \in DOMAIN objs :
        \A j \in DOMAIN objs[i].errs :
            /\ objs[i].errs[j].event.type = "error"
            /\ objs[i].errs[j].event.message \in {<<e>> : e \in StreamErrors}
            /\ objs[i].errs[j].event.data = <<objs[i].topic, objs[i].sub>>
            /\ ~objs[i].errs[j].threw

\* C20: every segment of a send call leaves the registry as it is; on a ready
\* facade the first segment issues the publish whether or not the topic name
\* is registered; the service receives the envelope {content, meta} of the
\* call, the one publish hands it for the same arguments, on the topic of
\* that name; and a send whose publish succeeded resolves.
C20_SendBypassesRegistry ==
    [][\A s \in Slots :
          Ran(s, "send")
            => LET c == calls[s]
                   d == calls'[s]
               IN /\ topics' = topics
                  /\ (~Busy(c) /\ client) => /\ d.reqs = <<"publish">>
                                             /\ d.result # "rejected"
                  /\ (c.pc = "publish_req" /\ d.resp = "ok")
                       => /\ upLog'[d.topic]
                               = Append(upLog[d.topic],
                                        EnvelopeBytes(d.content, d.meta))
                          /\ JSONParse(DataToString(
                                 upLog'[d.topic][Len(upLog'[d.topic])]))
                               = Obj(Member(<<"c", "o", "n", "t", "e", "n", "t">>,
                                            ValueOf(d.content))
                                     \o Member(<<"m", "e", "t", "a">>,
                                               ValueOf(d.meta)))
                          /\ \A t \in Topics \ {d.topic} : upLog'[t] = upLog[t]
                  /\ (d.pc = "done" /\ d.resp = "ok") => d.result = "resolved"]_vars

\* a send on a topic that exists upstream and was never registered resolved
C20_SentToUnregistered ==
    \E s \in Slots : /\ Done(calls[s], "send")
                     /\ calls[s].result = "resolved"
                     /\ calls[s].resp = "ok"
                     /\ calls[s].topic \notin topics
                     /\ upLog[calls[s].topic] # <<>>

\* C21: send and sendWithoutCover follow the error policy of publish: when
\* the upstream publish fails, a call with handler = true resolves after
\* exactly one error event, and a call with handler = false rejects and emits
\* no error event.
C21_SendFollowsPublishPolicy ==
    \A s \in Slots :
        LET c == calls[s]
        IN (/\ c.op \in {"send", "sendWithoutCover"}
            /\ c.pc = "done"
            /\ c.resp \in UpstreamErrors)
             => IF c.handle
                THEN /\ c.result = "resolved"
                     /\ Len(c.events) = 1
                     /\ c.events[1].type = "error"
                     /\ c.events[1].message = <<c.resp>>
                ELSE /\ c.result = "rejected"
                     /\ c.events = <<>>

\* C22: sendWithoutCover hands upstream exactly the bytes it was given, with
\* no envelope and no JSON encoding, whatever the bytes are: the step in which
\* the service accepts the publish appends the given bytes, and nothing else,
\* to what the topic received, and no other step of the call publishes.
C22_SendWithoutCoverRawBytes ==
    [][\A s \in Slots :
         Ran(s, "sendWithoutCover")
           => LET c == calls[s]
                  d == calls'[s]
              IN IF c.pc = "publish_req" /\ d.resp = "ok"
                 THEN /\ upLog' = [upLog EXCEPT ![d.topic] = Append(@, d.data)]
                      /\ d.data \in Payloads
                 ELSE upLog' = upLog]_vars

\* a payload that is not JSON was accepted upstream as it was given
C22_RawPayloadAccepted ==
    \E s \in Slots :
        /\ Done(calls[s], "sendWithoutCover")
        /\ calls[s].resp = "ok"
        /\ calls[s].data = <<123, 98, 97, 100>>
        /\ upLog[calls[s].topic] = <<calls[s].data>>

\* C23: the envelope round-trips: the bytes that publish hands upstream, when
\* the message listener of subscribe decodes them (safeJSON of the text of the
\* bytes), give the listener's callback the object {content: C, meta: M} of
\* the content C and the meta M that publish was given, and the listener does
\* not throw.
C23_EnvelopeRoundTrip ==
    [][\A s \in Slots :
         (/\ Ran(s, "publish")
          /\ calls[s].pc = "publish_req"
          /\ calls'[s].resp = "ok")
           => LET d == calls'[s]
                  bytes == upLog'[d.topic][Len(upLog'[d.topic])]
                  m == OnMessage(Wrapper("cb1"), NewMessage(1, TRUE, TRUE, bytes))
              IN /\ Len(upLog'[d.topic]) = Len(upLog[d.topic]) + 1
                 /\ ~m.threw
                 /\ m.given = <<"cb1">>
                 /\ m.env = <<Obj(Member(<<"c", "o", "n", "t", "e", "n", "t">>,
                                          ValueOf(d.content))
                                   \o Member(<<"m", "e", "t", "a">>,
                                             ValueOf(d.meta)))>>]_vars

\* a publish of the content {x: 1} with a meta of two fields was accepted
C23_PublishedWithMeta ==
    \E s \in Slots :
        /\ Done(calls[s], "publish")
        /\ calls[s].resp = "ok"
        /\ calls[s].content = "one"
        /\ calls[s].meta = "both"
        /\ upLog[calls[s].topic] # <<>>

\* C28: publish validates meta before any I/O: a publish whose meta has a
\* field other than replyTo and correlationId is rejected and nothing is
\* published for it.
C28_PublishValidatesMeta ==
    \A s \in Slots :
        LET c == calls[s]
        IN (/\ c.op = "publish"
            /\ Keys(ValueOf(c.meta)) \ MetaFields # {})
             => /\ c.reqs = <<>>
                /\ c.result = "rejected"

\* C24: once an init() has succeeded the client handle stays set: no step of
\* any operation, failed ones and a later failing init() included, makes it
\* null again.
C24_ClientStaysReady == [][client => client']_vars

\* an init() failed on a facade that an earlier init() had made ready
C24_LaterInitFailed ==
    /\ client
    /\ \E s \in Slots : /\ Done(calls[s], "init")
                        /\ calls[s].result = "rejected"
                        /\ calls[s].resp \in UpstreamErrors

\* C25: while the facade is uninitialized (no init() has succeeded) the
\* registry is empty, and every call of an operation other than init
\* (createTopic, send and sendWithoutCover for want of a client; deleteTopic,
\* subscribe, unsubscribe and publish for want of a registered topic) is
\* rejected in its first segment without any upstream request; nothing
\* changes upstream.
C25_UninitializedRejects ==
    [][~client =>
         /\ topics = {}
         /\ topics' = {}
         /\ <<upTopics, upSubs, upLog>>' = <<upTopics, upSubs, upLog>>
         /\ \A s \in Slots :
              (calls'[s] # calls[s] /\ calls'[s].op \notin {"idle", "init"})
                => /\ calls'[s].pc = "done"
                   /\ calls'[s].result = "rejected"
                   /\ calls'[s].value = "TypeError"
                   /\ calls'[s].reqs = <<>>]_vars

\* a sendWithoutCover was rejected on an uninitialized facade
C25_RejectedUninitialized ==
    /\ ~client
    /\ \E s \in Slots : /\ Done(calls[s], "sendWithoutCover")
                        /\ calls[s].result = "rejected"
                        /\ calls[s].reqs = <<>>

\* the kinds of request the facade sends to the service
RequestKinds == {"list", "exists", "create", "delete", "publish"}

\* C26: the facade never retries: one call of any of the eight operations
\* issues each kind of upstream request (list, exists, create, delete,
\* publish) at most once, whatever the service answers.
C26_NoRetries ==
    \A s \in Slots :
        /\ Range(calls[s].reqs) \subseteq RequestKinds
        /\ \A kind \in RequestKinds : Count(calls[s].reqs, kind) <= 1

\* a publish whose one upstream request failed has settled
C26_FailedAfterOneRequest ==
    \E s \in Slots :
        /\ Done(calls[s], "publish")
        /\ calls[s].handle
        /\ calls[s].resp = "TransportError"
        /\ calls[s].reqs = <<"publish">>

\* C27: deleteTopic leaves subscriptions alone: no step of a deleteTopic call
\* changes the subscriptions that exist upstream, and the only request the
\* call issues is the deletion of the topic itself.
C27_DeleteTopicKeepsSubscriptions ==
    [][\A s \in Slots :
         Ran(s, "deleteTopic")
           => /\ upSubs' = upSubs
              /\ calls'[s].reqs \in {<<>>, <<"delete">>}]_vars

\* a topic was deleted while a subscription on it exists upstream
C27_DeletedWithSubscription ==
    \E s \in Slots :
        /\ Done(calls[s], "deleteTopic")
        /\ calls[s].result = "resolved"
        /\ calls[s].topic \notin upTopics
        /\ \E p \in upSubs : p[1] = calls[s].topic

\* C29: unsubscribe on a registered topic asks the service to delete the
\* subscription.  Its promise resolves, with true, only in the step after the
\* service confirmed the deletion, and with exactly one log event, which
\* carries the topic name and the subscription name; when the deletion fails
\* the promise rejects with the failure and no event is emitted.
C29_UnsubscribeDeletesUpstream ==
    [][\A s \in Slots :
         Ran(s, "unsubscribe")
           => LET c == calls[s]
                  d == calls'[s]
              IN /\ c.op # "unsubscribe"
                      => IF HasHandle(topics, d.topic)
                         THEN /\ d.reqs = <<"delete">>
                              /\ d.result = "none"
                              /\ d.events = <<>>
                         ELSE d.result = "rejected"
                 /\ c.pc = "delete_req"
                      => /\ d.result = "none"
                         /\ d.events = <<>>
                         /\ d.resp = "ok" => \A p \in upSubs' : p[2] # d.sub
                 /\ c.pc = "delete_resp"
                      => IF c.resp = "ok"
                         THEN /\ d.result = "resolved"
                              /\ d.value = "true"
                              /\ d.events
                                  = <<Event("log",
                                            <<"Removed listener from", d.topic, d.sub>>,
                                            <<d.topic, d.sub>>)>>
                         ELSE /\ d.result = "rejected"
                              /\ d.value = c.resp
                              /\ d.events = <<>>]_vars

\* an unsubscribe resolved after the subscription was deleted upstream
C29_UnsubscribedUpstream ==
    \E s \in Slots :
        /\ Done(calls[s], "unsubscribe")
        /\ calls[s].result = "resolved"
        /\ Len(calls[s].events) = 1
        /\ ~SubExists(calls[s].sub)

\* C30: the envelope always has ack, nack and skip, and each can be called
\* without an exception: ack acknowledges the message; nack and skip act on
\* the message when the message supports them and otherwise do nothing.
C30_EnvelopeCallbacks ==
    \A k \in DOMAIN msgs :
        LET m == msgs[k]
        IN /\ ~m.threw
           /\ m.given # <<>>
           /\ m.acked <=> m.ackInvoked
           /\ m.nacked <=> (m.nackInvoked /\ m.nack)
           /\ m.skipped <=> (m.skipInvoked /\ m.skip)

\* the callback called nack and skip on the envelope of a message that
\* supports neither
C30_NackAndSkipUnsupported ==
    \E k \in DOMAIN msgs :
        /\ ~msgs[k].nack /\ ~msgs[k].skip
        /\ msgs[k].nackInvoked /\ msgs[k].skipInvoked /\ msgs[k].ackInvoked
        /\ msgs[k].acked /\ ~msgs[k].nacked /\ ~msgs[k].skipped

\* C31: overlapping createTopic(name) calls are not mutually excluded: a call
\* whose existence check said the topic does not exist issues the upstream
\* create whatever other calls are in flight, so two overlapping calls can
\* both issue it; the service refuses the duplicate creation, and the call
\* that attempted it rejects with that refusal, leaving the registry as it is.
C31_CreateTopicNotExclusive ==
    [][\A s \in Slots :
         Ran(s, "createTopic")
           => LET c == calls[s]
                  d == calls'[s]
              IN /\ (c.pc = "exists_resp" /\ d.pc # c.pc /\ c.resp = "false")
                      => /\ d.pc = "create_req"
                         /\ d.reqs = <<"exists", "create">>
                 /\ (c.pc = "create_req" /\ d.resp = "AlreadyExists")
                      => /\ d.topic \in upTopics
                         /\ upTopics' = upTopics
                 /\ (c.pc = "create_resp" /\ d.pc # c.pc
                                            /\ c.resp = "AlreadyExists")
                      => /\ d.result = "rejected"
                         /\ d.value = "AlreadyExists"
                         /\ topics' = topics]_vars

\* two overlapping createTopic calls of one name both issued the create: the
\* name is registered by the one, the other was refused and rejected
C31_DuplicateCreateRejected ==
    \E s \in Slots :
        /\ Done(calls[s], "createTopic")
        /\ calls[s].overlap
        /\ calls[s].reqs = <<"exists", "create">>
        /\ calls[s].result = "rejected"
        /\ calls[s].value = "AlreadyExists"
        /\ calls[s].topic \in topics
        /\ calls[s].topic \in upTopics

\* C32: in a chain of publish calls on a registered topic, with the default
\* meta and the default handle, each started after the one before settled:
\* a call issues exactly one upstream publish, stays pending until the service
\* answered, and resolves when the service accepted the message; the message
\* is appended after everything the topic received from the calls before, so
\* the topic receives the messages in call order.
C32_PublishChainInOrder ==
    [][\A s \in Slots :
         Ran(s, "publish")
           => LET c == calls[s]
                  d == calls'[s]
                  bytes == EnvelopeBytes(d.content, d.meta)
              IN /\ (c.op # "publish" \/ c.pc = "done")
                      => /\ upLog' = upLog
                         /\ \A r \in Slots : ~Busy(calls[r])
                         /\ HasHandle(topics, d.topic)
                              => /\ d.reqs = <<"publish">>
                                 /\ d.result = "none"
                 /\ c.pc = "publish_req"
                      => /\ d.result = "none"
                         /\ upLog' = IF d.resp = "ok"
                                     THEN [upLog EXCEPT ![d.topic] = Append(@, bytes)]
                                     ELSE upLog
                 /\ (c.pc = "publish_resp" /\ c.resp = "ok")
                      => /\ d.result = "resolved"
                         /\ d.reqs = <<"publish">>
                         /\ upLog' = upLog
                         /\ upLog[d.topic][Len(upLog[d.topic])] = bytes]_vars

\* two publish calls in a row resolved and the topic holds the messages of
\* both, the message of the first call first
C32_TwoPublishedInOrder ==
    \E s \in Slots :
        /\ Done(calls[s], "publish")
        /\ calls[s].result = "resolved"
        /\ calls[s].follows
        /\ calls[s].content = "seven"
        /\ upLog[calls[s].topic]
            = <<EnvelopeBytes("one", "{}"), EnvelopeBytes("seven", "{}")>>

\* C33 as stated: the name of the registry operation (createTopic or
\* deleteTopic) that completed last is in the registry exactly when that
\* operation was a successful createTopic.
C33_RegisteredIffLastCompletedCreate ==
    \A s \in Slots :
        LET c == calls[s]
        IN (c.op \in {"createTopic", "deleteTopic"} /\ c.pc = "done")
             => (c.topic \in topics
                   <=> (c.op = "createTopic" /\ c.result = "resolved"))

\* C33, amended: the registry changes only through createTopic and
\* deleteTopic.  A step changes it only by resolving a createTopic(name),
\* which adds name, or by resolving a deleteTopic(name), which removes name;
\* steps of init, subscribe, unsubscribe, publish, send and sendWithoutCover
\* and rejected registry operations leave it as it is.  So a name is in the
\* registry exactly when the last successful registry operation on it was a
\* createTopic.
C33_RegistryFrame ==
    [][/\ topics' # topics
            => \E s \in Slots :
                  /\ calls'[s].pc = "done"
                  /\ calls[s].pc # "done"
                  /\ calls'[s].result = "resolved"
                  /\ \/ /\ calls'[s].op = "createTopic"
                        /\ topics' = topics \cup {calls'[s].topic}
                     \/ /\ calls'[s].op = "deleteTopic"
                        /\ topics' = topics \ {calls'[s].topic}
       /\ \A s \in Slots :
             (calls'[s].pc = "done" /\ calls[s].pc # "done"
                /\ calls'[s].result = "resolved")
               => /\ calls'[s].op = "createTopic" => calls'[s].topic \in topics'
                  /\ calls'[s].op = "deleteTopic"
                       => topics' = topics \ {calls'[s].topic}]_vars

\* a deleteTopic failed on a registered name, which is still registered, while
\* another name is registered too
C33_FailedDeleteKeepsName ==
    \E s \in Slots :
        /\ Done(calls[s], "deleteTopic")
        /\ calls[s].result = "rejected"
        /\ calls[s].resp = "TransportError"
        /\ topics = Topics

\* C34 as stated: under sequential use by the only party that changes the
\* service, every name in the registry names a topic that exists upstream, in
\* every reachable state.
C34_RegisteredExistsUpstream == topics \subseteq upTopics

\* C34, amended: under sequential use by the only party that changes the
\* service, every name in the registry names a topic that exists upstream,
\* except while a deleteTopic of that name, whose deletion the service has
\* carried out, has not yet run its continuation; in particular in every
\* state in which no deleteTopic is in flight.
C34_RegisteredExistsUpstreamAtRest ==
    \A name \in topics :
        \/ name \in upTopics
        \/ \E s \in Slots : /\ calls[s].op = "deleteTopic"
                            /\ calls[s].topic = name
                            /\ calls[s].pc = "delete_resp"
                            /\ calls[s].resp = "ok"

\* a topic created by the facade is registered and exists upstream, after a
\* deleteTopic of another name resolved
C34_CreatedAndRegistered ==
    /\ "t2" \in topics
    /\ "t2" \in upTopics
    /\ \E s \in Slots : /\ Done(calls[s], "deleteTopic")
                        /\ calls[s].result = "resolved"
                        /\ calls[s].topic \notin topics \cup upTopics

\* C35: a failed upstream call leaves the registry unchanged: the step in
\* which a createTopic learns that its exists or create request failed, or a
\* deleteTopic that its delete request failed, rejects the promise with the
\* failure and leaves the registry as it is, and no earlier step of the call
\* changed the registry.
C35_FailedCallKeepsRegistry ==
    [][\A s \in Slots :
         (Ran(s, "createTopic") \/ Ran(s, "deleteTopic"))
           => LET c == calls[s]
                  d == calls'[s]
              IN /\ d.pc # "done" => topics' = topics
                 /\ (c.pc \in {"exists_resp", "create_resp", "delete_resp"}
                       /\ c.resp \in UpstreamErrors)
                      => /\ d.pc = "done"
                         /\ d.result = "rejected"
                         /\ d.value = c.resp
                         /\ topics' = topics]_vars

\* a createTopic whose create request failed has rejected and its name is
\* not registered; a registered name is still registered
C35_FailedCreateNotRegistered ==
    \E s \in Slots :
        /\ Done(calls[s], "createTopic")
        /\ calls[s].reqs = <<"exists", "create">>
        /\ calls[s].resp = "TransportError"
        /\ calls[s].result = "rejected"
        /\ calls[s].topic \notin topics
        /\ topics # {}

\* C36: when the exists or create request of subscribe fails, the promise
\* rejects with the failure in the step that learns of it; the call attaches
\* no listener (it leaves the Subscription objects as they are in all its
\* steps), emits no success event, and no message is delivered to its
\* callback, messages reaching callbacks only through objects that hold a
\* message listener.
C36_FailedSubscribeAttachesNothing ==
    [][/\ \A s \in Slots :
            Ran(s, "subscribe")
              => LET c == calls[s]
                     d == calls'[s]
                 IN /\ (d.pc # "done" \/ d.result = "rejected")
                         => /\ objs' = objs
                            /\ msgs' = msgs
                    /\ (c.pc \in {"exists_resp", "create_resp"} /\ d.pc # c.pc
                          /\ c.resp \in UpstreamErrors)
                         => /\ d.pc = "done"
                            /\ d.result = "rejected"
                            /\ d.value = c.resp
                            /\ d.obj = 0
                            /\ \A i \in DOMAIN d.events : d.events[i].type = "log"
       /\ \A k \in DOMAIN msgs' :
            k \notin DOMAIN msgs
              => /\ msgs'[k].obj \in DOMAIN objs
                 /\ objs[msgs'[k].obj].msgL # <<>>]_vars

\* a subscribe whose create request failed has rejected and nothing holds a
\* listener
C36_FailedCreateNoListener ==
    \E s \in Slots :
        /\ Done(calls[s], "subscribe")
        /\ calls[s].reqs = <<"exists", "create">>
        /\ calls[s].resp \in UpstreamErrors
        /\ calls[s].result = "rejected"
        /\ objs = <<>>
        /\ msgs = <<>>

\* C37: each successful subscribe call attaches exactly one message listener
\* and one error listener to the Subscription object it obtained, an object
\* of its own: every object holds one message listener, the wrapper of the
\* callback of the call that obtained it, and one error listener, however
\* many calls subscribed and in whatever order; so each message an object
\* delivers invokes that callback exactly once, with one envelope.
C37_OneListenerPerSubscribe ==
    /\ \A i \in DOMAIN objs :
          /\ Len(objs[i].msgL) = 1
          /\ objs[i].msgL[1].fn = "wrapper"
          /\ objs[i].errL = 1
    /\ \A s \in Slots :
          (Done(calls[s], "subscribe") /\ calls[s].result = "resolved")
            => /\ calls[s].obj = Len(objs)
               /\ objs[calls[s].obj].msgL = <<Wrapper(calls[s].cb)>>
               /\ objs[calls[s].obj].sub = calls[s].sub
    /\ \A k \in DOMAIN msgs :
          /\ msgs[k].given = <<objs[msgs[k].obj].msgL[1].cb>>
          /\ Len(msgs[k].env) = 1

\* two calls subscribed to the same subscription with different callbacks,
\* and a message delivered by the first object reached the first callback only
C37_TwoSubscribersOneDelivery ==
    /\ Len(objs) = 2
    /\ objs[1].sub = objs[2].sub
    /\ objs[1].topic = objs[2].topic
    /\ objs[1].msgL[1].cb # objs[2].msgL[1].cb
    /\ \E k \in DOMAIN msgs : /\ msgs[k].obj = 1
                              /\ msgs[k].given = <<objs[1].msgL[1].cb>>

\* C38: overlapping createTopic(name) and deleteTopic(name) calls are racy:
\* the continuation of a call writes the registry on the strength of the
\* answer the call received, whatever has happened upstream since.  A
\* createTopic that was told the topic exists registers the name and resolves,
\* and a deleteTopic whose deletion was carried out removes the name and
\* resolves, also when another call has deleted or created the topic in the
\* meantime; so the calls can settle with the registry disagreeing with the
\* service.
C38_RegistryWritesIgnoreUpstream ==
    [][\A s \in Slots :
         LET c == calls[s]
             d == calls'[s]
         IN /\ (Ran(s, "createTopic") /\ c.pc = "exists_resp" /\ d.pc # c.pc
                  /\ c.resp = "true")
                 => /\ topics' = topics \cup {d.topic}
                    /\ d.pc = "done"
                    /\ d.result = "resolved"
                    /\ d.reqs = <<"exists">>
            /\ (Ran(s, "deleteTopic") /\ c.pc = "delete_resp" /\ d.pc # c.pc
                  /\ c.resp = "ok")
                 => /\ topics' = topics \ {d.topic}
                    /\ d.pc = "done"
                    /\ d.result = "resolved"]_vars

\* all calls have settled, the last of them a createTopic that overlapped
\* with a deleteTopic of the same name: the name is registered although the
\* topic was deleted upstream
C38_RegisteredButDeleted ==
    /\ ~AnyBusy
    /\ \E s \in Slots :
          /\ Done(calls[s], "createTopic")
          /\ calls[s].overlap
          /\ calls[s].result = "resolved"
          /\ calls[s].topic \in topics
          /\ calls[s].topic \notin upTopics

\* C39: observability does not affect outcomes: the result of an operation is
\* the same whether or not the event sink has listeners; in particular a
\* publish, send or sendWithoutCover that handles errors (handle = true) and
\* whose upstream publish fails resolves, also on a sink without an 'error'
\* listener, having issued its one upstream request.
C39_OutcomeIndependentOfSink ==
    \A s \in Slots :
        LET c == calls[s]
        IN (/\ c.op \in {"publish", "send", "sendWithoutCover"}
            /\ c.pc = "done"
            /\ c.handle
            /\ c.reqs = <<"publish">>
            /\ c.resp \in UpstreamErrors)
             => /\ c.result = "resolved"
                /\ "error" \notin sink => c.value = "undefined"

====
